---------------------------- MODULE Spec2Model ----------------------------
(***************************************************************************)
(* A model of molt-life-kernel: the continuity kernel MoltLifeKernel       *)
(* (src/src/kernel.ts) and the governance wrapper SecureMoltKernel         *)
(* (src/src/secure-kernel.ts) that subclasses it.                          *)
(*                                                                         *)
(* Conventions                                                             *)
(*  - One kernel instance.  `secure` says which class was constructed;     *)
(*    on a SecureMoltKernel the inner calls this.append (from witness) and *)
(*    this.molt (from heartbeat) dispatch to the overriding methods.       *)
(*  - JavaScript runs one job at a time.  A synchronous method, and an     *)
(*    async method up to the point where it waits for an event that comes  *)
(*    from outside (the approver's answer, the timer), is one action.      *)
(*    The only such wait is the Promise.race of witness.                   *)
(*  - Date.now() is the variable `now`, in ticks.                          *)
(*  - A JavaScript string is the sequence of its characters.               *)
(*  - An object is a record; an optional property that is absent is a      *)
(*    field that is not in the record's DOMAIN.                            *)
(*  - risk is counted in hundredths (0.7 is 70).                           *)
(*  - driftScore is the number of 0.01 increments accumulated since it was *)
(*    last set to 0, capped at 100 (where the code clamps to 1); see       *)
(*    DriftGT for the comparison the binary64 sum gives.                   *)
(*  - Kernel operations are operators from a state record to a state       *)
(*    record (plus the outcome), so that a handler's nested calls compose; *)
(*    an action applies one public operation and commits the result.       *)
(***************************************************************************)
EXTENDS Integers, Sequences, FiniteSets, TLC

VARIABLES
    secure,            \* TRUE: the instance is a SecureMoltKernel
    witnessCallback,   \* TRUE: config.witnessCallback was given
    metricsEnabled,    \* config.enableMetrics ?? true
    heartbeatInterval, \* config.heartbeatMs || 3600000
    now,               \* Date.now()
    ledger,            \* MoltLifeKernel.ledger
    capsule,           \* MoltLifeKernel.capsule (NoCapsule: null)
    lastHeartbeat,     \* MoltLifeKernel.lastHeartbeat
    driftScore,        \* MoltLifeKernel.driftScore
    frozenInvariants,  \* MoltLifeKernel.frozenInvariants
    shellVersion,      \* MoltLifeKernel.shellVersion
    metrics,           \* MoltLifeKernel.metrics
    rateCalls,         \* RateLimiter.calls of SecureMoltKernel.rateLimiter
    auditLog,          \* SecureMoltKernel.auditLog
    securityMetrics,   \* SecureMoltKernel.securityMetrics
    calls,             \* the witness calls made so far, in order
    ret                \* what the last call other than witness gave its caller
                       \* (what a witness call gave is kept in calls)

config == <<secure, witnessCallback, metricsEnabled, heartbeatInterval>>
kernelVars == <<ledger, capsule, lastHeartbeat, driftScore, frozenInvariants,
                shellVersion, metrics>>
secureVars == <<rateCalls, auditLog, securityMetrics>>
vars == <<config, now, kernelVars, secureVars, calls, ret>>

--------------------------------------------------------------------------
\* Bounds of the model.

MaxTime == 2       \* the clock stops here
MaxLedger == 2     \* no call that can append starts on a ledger this long
MaxWitness == 2    \* witness calls per behaviour
MaxAudit == 2      \* no governed call starts once this many were audited
MaxChecks == 1     \* enforceCoherence calls that are counted
HeartbeatMs == 1   \* config.heartbeatMs
MinTimeout == 1    \* the shortest timeout a caller passes to witness
MaxTimeout == 2    \* the longest timeout a caller passes to witness
MaxSaturateLedger == 102  \* the ledger of the saturation specification stops here
MaxDriftLedger == 38   \* the ledger of the drift specification stops here
MaxMolts == 2      \* reconfigurations per behaviour of the drift specification

--------------------------------------------------------------------------
\* Strings that the code writes.

S_molt == <<"m", "o", "l", "t">>
S_witness_decision ==
    <<"w", "i", "t", "n", "e", "s", "s", "_", "d", "e", "c", "i", "s", "i", "o", "n">>
S_drift_threshold ==
    <<"d", "r", "i", "f", "t", "_", "t", "h", "r", "e", "s", "h", "o", "l", "d">>
S_schema == <<"0", ".", "3", ".", "0">>

\* THRESHOLDS: the drift and risk thresholds in hundredths; the heartbeat
\* ages (300000 and 600000 ms) scaled to the model's ticks.
MOLT_REQUIRED == 35
WITNESS_REQUIRED == 70
HEARTBEAT_WARNING == 0
HEARTBEAT_CRITICAL == 1
\* The default of witness's timeout parameter is 300000 ms; the model's
\* callers always pass a timeout, in ticks.

Min(a, b) == IF a < b THEN a ELSE b

\* The capsule field before the first heartbeat.
NoCapsule == [null |-> TRUE]

\* The metrics object of the constructor.  Left out: the three gauges that
\* hold a duration or are recomputed by getMetrics (ledger_append_avg_ms,
\* last_heartbeat_ms, uptime_ms) and drift_score, which getMetrics overwrites
\* with driftScore.
InitMetrics ==
    [ledger_size |-> 0, ledger_total_appends |-> 0, heartbeat_count |-> 0,
     heartbeat_failures |-> 0, drift_violations |-> 0, molt_count |-> 0,
     last_molt_timestamp |-> 0, witness_calls |-> 0, witness_approvals |-> 0,
     witness_rejections |-> 0, witness_timeouts |-> 0, coherence_checks |-> 0,
     coherence_violations |-> 0, errors |-> 0]

InitSecurityMetrics ==
    [rate_limit_violations |-> 0, sanitization_blocks |-> 0,
     audit_events |-> 0, security_errors |-> 0]

\* The instance's mutable fields as one record.
St ==
    [ledger |-> ledger, capsule |-> capsule, lastHeartbeat |-> lastHeartbeat,
     driftScore |-> driftScore, frozenInvariants |-> frozenInvariants,
     shellVersion |-> shellVersion, metrics |-> metrics,
     rateCalls |-> rateCalls, auditLog |-> auditLog,
     securityMetrics |-> securityMetrics]

Commit(s) ==
    /\ ledger' = s.ledger
    /\ capsule' = s.capsule
    /\ lastHeartbeat' = s.lastHeartbeat
    /\ driftScore' = s.driftScore
    /\ frozenInvariants' = s.frozenInvariants
    /\ shellVersion' = s.shellVersion
    /\ metrics' = s.metrics
    /\ rateCalls' = s.rateCalls
    /\ auditLog' = s.auditLog
    /\ securityMetrics' = s.securityMetrics

\* if (this.metricsEnabled) this.metrics[f]++
Bump(s, f) ==
    IF metricsEnabled
    THEN [s EXCEPT !.metrics = [@ EXCEPT ![f] = @ + 1]]
    ELSE s

\* A property of an object, or `dflt` when it is absent.
Get(obj, f, dflt) == IF f \in DOMAIN obj THEN obj[f] ELSE dflt

--------------------------------------------------------------------------
\* MoltLifeKernel (src/src/kernel.ts)

\* The n for which the binary64 sum of n increments of 0.01 lies strictly
\* above the literal n/100 (computed: 0.01 added 35 times is
\* 0.35000000000000014).
AccAbove == {6} \cup (18..100)

\* The comparison in exact decimal arithmetic, where 35 increments of 0.01
\* are 0.35 and not above it.
DriftGT_Exact(n, t) == n > t

\* driftScore > t/100, for driftScore the sum of n increments.  The sum of
\* 100 increments is 1.0000000000000007, which the code clamps to 1.
DriftGT(n, t) == n > t \/ (n = t /\ n \in AccAbove)

\* updateDrift without the clamp at 1.
updateDrift_NoClamp(s) ==
    LET d == s.driftScore + 1
        s1 == [s EXCEPT !.driftScore = d]
    IN  IF DriftGT(d, MOLT_REQUIRED) THEN Bump(s1, "drift_violations") ELSE s1

\* updateDrift resetting the score when it counts a violation.
updateDrift_ResetsWhenOver(s) ==
    LET d == Min(s.driftScore + 1, 100)
        s1 == [s EXCEPT !.driftScore = d]
    IN  IF DriftGT(d, MOLT_REQUIRED)
        THEN Bump([s1 EXCEPT !.driftScore = 0], "drift_violations")
        ELSE s1

updateDrift(s) ==
    LET d == Min(s.driftScore + 1, 100)
        s1 == [s EXCEPT !.driftScore = d]
    IN  IF DriftGT(d, MOLT_REQUIRED) THEN Bump(s1, "drift_violations") ELSE s1

\* Stamp with the spread last: { timestamp, ledgerIndex, ...action }.
Stamp_CallerWins(action, index) ==
    [f \in (DOMAIN action) \cup {"timestamp", "ledgerIndex"} |->
        IF f \in DOMAIN action THEN action[f]
        ELSE IF f = "timestamp" THEN now ELSE index]

\* { ...action, timestamp: Date.now(), ledgerIndex: this.ledger.length }
Stamp(action, index) ==
    [f \in (DOMAIN action) \cup {"timestamp", "ledgerIndex"} |->
        CASE f = "timestamp" -> now
          [] f = "ledgerIndex" -> index
          [] OTHER -> action[f]]

kAppend(s, action) ==
    LET entry == Stamp(action, Len(s.ledger))
        s1 == updateDrift([s EXCEPT !.ledger = Append(@, entry)])
    IN  IF metricsEnabled
        THEN [s1 EXCEPT !.metrics =
                 [@ EXCEPT !.ledger_size = Len(s1.ledger),
                           !.ledger_total_appends = @ + 1]]
        ELSE s1

\* A capsule whose checkpoint is the index after the next entry.
createCapsule_PastTheEnd(s) ==
    [timestamp |-> now, frozenState |-> s.frozenInvariants,
     ledgerCheckpoint |-> Len(s.ledger) + 1, schemaVersion |-> S_schema,
     shellVersion |-> s.shellVersion]

createCapsule(s) ==
    [timestamp |-> now, frozenState |-> s.frozenInvariants,
     ledgerCheckpoint |-> Len(s.ledger), schemaVersion |-> S_schema,
     shellVersion |-> s.shellVersion]

\* The entry molt pushes: oldDrift is read after driftScore was set to 0.
MoltEntry(s) ==
    [type |-> S_molt,
     payload |-> [reason |-> S_drift_threshold, oldDrift |-> s.driftScore,
                  newShellVersion |-> s.shellVersion],
     timestamp |-> now]

\* molt starting the ledger afresh with its own entry.
kMolt_Truncates(s) ==
    LET s1 == [s EXCEPT !.shellVersion = @ + 1, !.driftScore = 0]
    IN  [s1 EXCEPT !.ledger = <<MoltEntry(s1)>>]

\* molt resetting the drift only when it is above the threshold.
kMolt_OnlyIfDrifted(s) ==
    LET s1 == [s EXCEPT !.shellVersion = @ + 1,
                        !.driftScore = IF DriftGT(@, MOLT_REQUIRED) THEN 0 ELSE @]
    IN  [s1 EXCEPT !.ledger = Append(@, MoltEntry(s1))]

\* A molt that counts a reconfiguration only when the drift called for one.
kMolt_CountsWhenDrifted(s) ==
    LET s1 == [s EXCEPT !.shellVersion = IF DriftGT(s.driftScore, MOLT_REQUIRED)
                                         THEN @ + 1 ELSE @,
                        !.driftScore = 0]
    IN  [s1 EXCEPT !.ledger = Append(@, MoltEntry(s1))]

kMolt(s) ==
    LET s1 == [s EXCEPT !.shellVersion = @ + 1, !.driftScore = 0]
        s2 == IF metricsEnabled
              THEN [s1 EXCEPT !.metrics = [@ EXCEPT !.molt_count = @ + 1,
                                                    !.last_molt_timestamp = now]]
              ELSE s1
    IN  [s2 EXCEPT !.ledger = Append(@, MoltEntry(s2))]

--------------------------------------------------------------------------
\* InputSanitizer (src/src/secure-kernel.ts)

UpperCase == <<"A", "B", "C", "D", "E", "F", "G", "H", "I", "J", "K", "L", "M",
               "N", "O", "P", "Q", "R", "S", "T", "U", "V", "W", "X", "Y", "Z">>
LowerCase == <<"a", "b", "c", "d", "e", "f", "g", "h", "i", "j", "k", "l", "m",
               "n", "o", "p", "q", "r", "s", "t", "u", "v", "w", "x", "y", "z">>
Digits == {"0", "1", "2", "3", "4", "5", "6", "7", "8", "9"}
Range(f) == {f[i] : i \in DOMAIN f}

\* The regular expressions carry the i flag: characters compare by their
\* lower-case form.
ToLower(c) ==
    IF c \in Range(UpperCase)
    THEN LowerCase[CHOOSE i \in DOMAIN UpperCase : UpperCase[i] = c]
    ELSE c

\* \w, \s and the characters that . does not match.
IsWord(c) == c \in Range(UpperCase) \cup Range(LowerCase) \cup Digits \cup {"_"}
IsSpace(c) == c \in {" ", "\t", "\n", "\r"}
IsLineEnd(c) == c \in {"\n", "\r"}

\* str has the literal lit (given in lower case) at position i.
HasAt(str, i, lit) ==
    /\ i + Len(lit) - 1 <= Len(str)
    /\ \A k \in 1..Len(lit) : ToLower(str[i + k - 1]) = lit[k]

\* The character classes \w, \s and [^>].
InClass(cls, c) ==
    CASE cls = "w" -> IsWord(c)
      [] cls = "s" -> IsSpace(c)
      [] cls = "notgt" -> c # ">"

\* Where a greedy run of characters of class cls that starts at i ends: the
\* first position >= i whose character is not in the class, Len+1 if none.
RECURSIVE RunEnd(_, _, _)
RunEnd(str, i, cls) ==
    IF i > Len(str) \/ ~InClass(cls, str[i]) THEN i ELSE RunEnd(str, i + 1, cls)

P_script == <<"<", "s", "c", "r", "i", "p", "t">>
P_endscript == <<"<", "/", "s", "c", "r", "i", "p", "t", ">">>
P_javascript == <<"j", "a", "v", "a", "s", "c", "r", "i", "p", "t", ":">>
P_on == <<"o", "n">>
P_eval == <<"e", "v", "a", "l", "(">>
P_function == <<"f", "u", "n", "c", "t", "i", "o", "n", "(">>

\* The lazy .*? followed by <\/script>: the first k >= i with the closing tag
\* at k and no line end in i..k-1; 0 if there is none.
RECURSIVE CloseAt(_, _)
CloseAt(str, i) ==
    IF i > Len(str) THEN 0
    ELSE IF HasAt(str, i, P_endscript) THEN i
    ELSE IF IsLineEnd(str[i]) THEN 0
    ELSE CloseAt(str, i + 1)

\* Where a match of each pattern that starts at i ends (the position after
\* it), 0 if none starts at i.
\* /<script[^>]*>.*?<\/script>/gi: [^>]* is greedy and cannot give a
\* character back to the > that follows it, so the > is the first one.
MatchScript(str, i) ==
    IF ~HasAt(str, i, P_script) THEN 0
    ELSE LET g == RunEnd(str, i + Len(P_script), "notgt")
         IN  IF g > Len(str) THEN 0
             ELSE LET k == CloseAt(str, g + 1)
                  IN  IF k = 0 THEN 0 ELSE k + Len(P_endscript)

\* /on\w+\s*=/gi: \w+ and \s* are greedy, and no shorter run can be followed
\* by =, which is neither a word character nor a space.
MatchOn(str, i) ==
    IF ~HasAt(str, i, P_on) THEN 0
    ELSE LET w == RunEnd(str, i + 2, "w")
             e == RunEnd(str, w, "s")
         IN  IF w = i + 2 \/ e > Len(str) \/ str[e] # "=" THEN 0 ELSE e + 1

MatchJavascript(str, i) == IF HasAt(str, i, P_javascript) THEN i + Len(P_javascript) ELSE 0
MatchEval(str, i) == IF HasAt(str, i, P_eval) THEN i + Len(P_eval) ELSE 0
MatchFunction(str, i) == IF HasAt(str, i, P_function) THEN i + Len(P_function) ELSE 0

\* DANGEROUS_PATTERNS, in order.
DANGEROUS_PATTERNS == <<"script", "javascript", "on", "eval", "function">>

MatchAt(pattern, str, i) ==
    CASE pattern = "script" -> MatchScript(str, i)
      [] pattern = "javascript" -> MatchJavascript(str, i)
      [] pattern = "on" -> MatchOn(str, i)
      [] pattern = "eval" -> MatchEval(str, i)
      [] pattern = "function" -> MatchFunction(str, i)

\* str.replace(pattern, '') with the g flag, from position i on: matches are
\* taken left to right and do not overlap.
RECURSIVE Strip(_, _, _)
Strip(str, i, pattern) ==
    IF i > Len(str) THEN <<>>
    ELSE LET e == MatchAt(pattern, str, i)
         IN  IF e = 0 THEN <<str[i]>> \o Strip(str, i + 1, pattern)
             ELSE Strip(str, e, pattern)

\* for (const pattern of DANGEROUS_PATTERNS) clean = clean.replace(pattern, '')
RECURSIVE StripAll(_, _)
StripAll(str, k) ==
    IF k > Len(DANGEROUS_PATTERNS) THEN str
    ELSE StripAll(Strip(str, 1, DANGEROUS_PATTERNS[k]), k + 1)

\* str.replace(/c/g, rep)
RECURSIVE ReplaceChar(_, _, _)
ReplaceChar(str, c, rep) ==
    IF str = <<>> THEN <<>>
    ELSE (IF Head(str) = c THEN rep ELSE <<Head(str)>>) \o ReplaceChar(Tail(str), c, rep)

E_amp == <<"&", "a", "m", "p", ";">>
E_lt == <<"&", "l", "t", ";">>
E_gt == <<"&", "g", "t", ";">>
E_quot == <<"&", "q", "u", "o", "t", ";">>
E_apos == <<"&", "#", "x", "2", "7", ";">>

\* An escape that leaves the apostrophe.
sanitizeString_KeepsApostrophe(str) ==
    LET clean == StripAll(str, 1)
    IN  ReplaceChar(ReplaceChar(ReplaceChar(ReplaceChar(
            clean, "&", E_amp), "<", E_lt), ">", E_gt), "\"", E_quot)

sanitizeString(str) ==
    LET clean == StripAll(str, 1)
    IN  ReplaceChar(ReplaceChar(ReplaceChar(ReplaceChar(ReplaceChar(
            clean, "&", E_amp), "<", E_lt), ">", E_gt), "\"", E_quot), "'", E_apos)

\* typeof of the value held by each property name the model uses (the
\* TypeScript interfaces type them; payload and details are objects here).
KindOf(field) ==
    CASE field \in {"type", "text", "reason"} -> "string"
      [] field \in {"payload", "action"} -> "object"
      [] field \in {"files"} -> "array"
      [] OTHER -> "other"

\* sanitize(input) for an input of typeof `kind`; the elements of an array
\* of the model are strings.
RECURSIVE sanitize(_, _)
sanitize(input, kind) ==
    CASE kind = "string" -> sanitizeString(input)
      [] kind = "array" -> [i \in DOMAIN input |-> sanitize(input[i], "string")]
      [] kind = "object" -> [key \in DOMAIN input |-> sanitize(input[key], KindOf(key))]
      [] OTHER -> input

\* The risk NaN, kept as a number outside the range of every other risk:
\* typeof gives 'number' for it, each comparison with it is false, and it is
\* falsy.
NaN == 1000
Less(a, b) == a # NaN /\ b # NaN /\ a < b
OrZero(a) == IF a = NaN THEN 0 ELSE a

\* The longest type that validate accepts.
MAX_TYPE_LENGTH == 100

\* validate(action): type is typed string and risk number, so the typeof
\* tests can only fail on an absent property.
validate(action) ==
    IF "type" \notin DOMAIN action \/ action.type = <<>> THEN FALSE
    ELSE IF Len(action.type) > MAX_TYPE_LENGTH THEN FALSE
    ELSE IF "risk" \in DOMAIN action
            /\ (Less(action.risk, 0) \/ Less(100, action.risk)) THEN FALSE
    ELSE TRUE

--------------------------------------------------------------------------
\* RateLimiter and the audit log (src/src/secure-kernel.ts)

\* SecureMoltKernel.rateLimits, scaled to the model: the code allows 1000
\* (append, enforceCoherence), 100 (witness, rehydrate), 60 (heartbeat) and
\* 10 (molt) calls per window, the windows being 60000 ms (WindowShort) and
\* for heartbeat and molt 3600000 ms (WindowLong).
AppendMaxCalls == 101
WitnessMaxCalls == 1
HeartbeatMaxCalls == 2
MoltMaxCalls == 1
CoherenceMaxCalls == 2
WindowShort == 1
WindowLong == 4

rateLimits ==
    [append |-> [maxCalls |-> AppendMaxCalls, windowMs |-> WindowShort],
     witness |-> [maxCalls |-> WitnessMaxCalls, windowMs |-> WindowShort],
     heartbeat |-> [maxCalls |-> HeartbeatMaxCalls, windowMs |-> WindowLong],
     molt |-> [maxCalls |-> MoltMaxCalls, windowMs |-> WindowLong],
     rehydrate |-> [maxCalls |-> WitnessMaxCalls, windowMs |-> WindowShort],
     enforceCoherence |-> [maxCalls |-> CoherenceMaxCalls, windowMs |-> WindowShort]]

\* The audit log keeps the last 1000 events; scaled to the model.
AuditCap == 2

\* calls.filter(time => now - time < config.windowMs)
RECURSIVE Filter(_, _)
Filter(times, windowMs) ==
    IF times = <<>> THEN <<>>
    ELSE (IF now - Head(times) < windowMs THEN <<Head(times)>> ELSE <<>>)
         \o Filter(Tail(times), windowMs)

\* A limiter that admits the call which finds the window full to the brim.
check_OneMore(window, cfg) ==
    LET validCalls == Filter(window, cfg.windowMs)
    IN  IF Len(validCalls) > cfg.maxCalls
        THEN [allowed |-> FALSE, window |-> validCalls]
        ELSE [allowed |-> TRUE, window |-> Append(validCalls, now)]

\* A limiter that records the time of the calls it refuses as well.
check_RecordsRefusals(window, cfg) ==
    LET validCalls == Filter(window, cfg.windowMs)
    IN  [allowed |-> Len(validCalls) < cfg.maxCalls, window |-> Append(validCalls, now)]

\* RateLimiter.check(operation, config): the window after the call, and
\* whether the call is allowed.
check(window, cfg) ==
    LET validCalls == Filter(window, cfg.windowMs)
    IN  IF Len(validCalls) >= cfg.maxCalls
        THEN [allowed |-> FALSE, window |-> validCalls]
        ELSE [allowed |-> TRUE, window |-> Append(validCalls, now)]

\* An audit log that evicts as soon as it is full.
audit_EvictsEarly(s, operation, success, details) ==
    LET event == [timestamp |-> now, operation |-> operation,
                  success |-> success, details |-> details]
        log == Append(s.auditLog, event)
    IN  [s EXCEPT !.auditLog = IF Len(log) >= AuditCap THEN Tail(log) ELSE log,
                  !.securityMetrics = [@ EXCEPT !.audit_events = @ + 1]]

\* SecureMoltKernel.audit(operation, success, details); details is a record,
\* the empty record when the argument is not given.
audit(s, operation, success, details) ==
    LET event == [timestamp |-> now, operation |-> operation,
                  success |-> success, details |-> details]
        log == Append(s.auditLog, event)
    IN  [s EXCEPT !.auditLog = IF Len(log) > AuditCap THEN Tail(log) ELSE log,
                  !.securityMetrics = [@ EXCEPT !.audit_events = @ + 1]]

NoDetails == <<>>

\* Error messages.
E_none == "none"
E_rate == "Rate limit exceeded"
E_validation == "Input validation failed"
E_window == "Window size out of bounds (1-1000)"
E_nowitness == "Critical action requires witness but none configured"
E_timeout == "Witness timeout"
E_approver == "approver failed"
E_coherence == "Context coherence violated - molt required"

\* What an operation gives: the state it leaves, and whether it returned
\* (ok) or threw err.
Ok(s) == [s |-> s, ok |-> TRUE, err |-> E_none]
Throw(s, err) == [s |-> s, ok |-> FALSE, err |-> err]

\* The head of executeSecure: the rate limit check of `operation`.  ok is
\* FALSE when the limit is exceeded: the violation is counted and audited,
\* and executeSecure throws before fn is called.
rateGate(s, operation) ==
    LET c == check(s.rateCalls[operation], rateLimits[operation])
        s1 == [s EXCEPT !.rateCalls = [@ EXCEPT ![operation] = c.window]]
    IN  IF c.allowed THEN Ok(s1)
        ELSE Throw(audit([s1 EXCEPT !.securityMetrics =
                              [@ EXCEPT !.rate_limit_violations = @ + 1]],
                         operation, FALSE, [reason |-> "rate_limit"]),
                   E_rate)

\* The catch of executeSecure, which a synchronous fn's throw reaches.
caught(s, operation, err) ==
    Throw(audit([s EXCEPT !.securityMetrics = [@ EXCEPT !.security_errors = @ + 1]],
                operation, FALSE, [error |-> err]),
          err)

\* A governed append that validates the action once the ledger has it.
sAppend_ValidatesLate(s, action) ==
    LET g == rateGate(s, "append")
        k == kAppend(g.s, sanitize(action, "object"))
    IN  IF ~g.ok THEN g
        ELSE IF ~validate(action)
        THEN caught([k EXCEPT !.securityMetrics =
                         [@ EXCEPT !.sanitization_blocks = @ + 1]],
                    "append", E_validation)
        ELSE Ok(audit(k, "append", TRUE, NoDetails))

\* SecureMoltKernel.append
sAppend(s, action) ==
    LET g == rateGate(s, "append")
    IN  IF ~g.ok THEN g
        ELSE IF ~validate(action)
        THEN caught([g.s EXCEPT !.securityMetrics =
                         [@ EXCEPT !.sanitization_blocks = @ + 1]],
                    "append", E_validation)
        ELSE Ok(audit(kAppend(g.s, sanitize(action, "object")),
                      "append", TRUE, NoDetails))

\* this.append(action)
thisAppend(s, action) == IF secure THEN sAppend(s, action) ELSE Ok(kAppend(s, action))

\* SecureMoltKernel.molt: MoltLifeKernel.molt does not throw.
sMolt(s) ==
    LET g == rateGate(s, "molt")
    IN  IF ~g.ok THEN g
        ELSE Ok(audit(kMolt(g.s), "molt", TRUE, NoDetails))

\* this.molt() resolving to MoltLifeKernel.molt on either class.
thisMolt_Ungoverned(s) == Ok(kMolt(s))

\* this.molt()
thisMolt(s) == IF secure THEN sMolt(s) ELSE Ok(kMolt(s))

--------------------------------------------------------------------------
\* heartbeat, enforceCoherence, rehydrate

\* A heartbeat that recentres: every effective heartbeat sets the drift to 0.
kHeartbeat_Recenters(s) ==
    IF now - s.lastHeartbeat < heartbeatInterval THEN Ok(s)
    ELSE Ok(Bump([s EXCEPT !.capsule = createCapsule(s), !.lastHeartbeat = now,
                           !.driftScore = 0],
                 "heartbeat_count"))

\* A heartbeat that reconfigures a drifted kernel before the interval is over.
kHeartbeat_MoltsEarly(s) ==
    IF now - s.lastHeartbeat < heartbeatInterval
    THEN IF DriftGT(s.driftScore, MOLT_REQUIRED) THEN thisMolt(s) ELSE Ok(s)
    ELSE LET s1 == Bump([s EXCEPT !.capsule = createCapsule(s),
                                  !.lastHeartbeat = now],
                        "heartbeat_count")
         IN  IF DriftGT(s1.driftScore, MOLT_REQUIRED)
             THEN LET m == thisMolt(s1)
                  IN  IF m.ok THEN m
                      ELSE Throw(Bump(Bump(m.s, "heartbeat_failures"), "errors"), m.err)
             ELSE Ok(s1)

\* A heartbeat that reconfigures first and takes its checkpoint afterwards.
kHeartbeat_CapsuleLast(s) ==
    IF now - s.lastHeartbeat < heartbeatInterval THEN Ok(s)
    ELSE LET m == IF DriftGT(s.driftScore, MOLT_REQUIRED) THEN thisMolt(s) ELSE Ok(s)
         IN  IF m.ok
             THEN Ok(Bump([m.s EXCEPT !.capsule = createCapsule(m.s),
                                      !.lastHeartbeat = now],
                          "heartbeat_count"))
             ELSE Throw(Bump(Bump(m.s, "heartbeat_failures"), "errors"), m.err)

\* MoltLifeKernel.heartbeat.  molt has no await of its own, so the whole of
\* heartbeat, the catch included, runs without another job in between.
kHeartbeat(s) ==
    IF now - s.lastHeartbeat < heartbeatInterval THEN Ok(s)
    ELSE LET s1 == Bump([s EXCEPT !.capsule = createCapsule(s),
                                  !.lastHeartbeat = now],
                        "heartbeat_count")
         IN  IF DriftGT(s1.driftScore, MOLT_REQUIRED)
             THEN LET m == thisMolt(s1)
                  IN  IF m.ok THEN m
                      ELSE Throw(Bump(Bump(m.s, "heartbeat_failures"), "errors"), m.err)
             ELSE Ok(s1)

\* SecureMoltKernel.heartbeat: fn is async, so a failure of super.heartbeat
\* rejects the promise that executeSecure returns and never reaches its catch.
sHeartbeat(s) ==
    LET g == rateGate(s, "heartbeat")
    IN  IF ~g.ok THEN g
        ELSE LET h == kHeartbeat(g.s)
             IN  IF h.ok THEN Ok(audit(h.s, "heartbeat", TRUE, NoDetails)) ELSE h

\* this.ledger.slice(-windowSize): -0 is 0, so a window of 0 is the whole
\* ledger; a negative windowSize drops the first -windowSize entries.
SliceLast(seq, windowSize) ==
    IF windowSize > 0
    THEN SubSeq(seq, Len(seq) - Min(windowSize, Len(seq)) + 1, Len(seq))
    ELSE SubSeq(seq, Min(0 - windowSize, Len(seq)) + 1, Len(seq))

\* The length above which computeVariance returns 0.6, and the variances
\* in tenths.
VARIANCE_WINDOW == 50
computeVariance(actions) == IF Len(actions) > VARIANCE_WINDOW THEN 6 ELSE 1

\* A coherence check that a reconfiguration clears: it finds a violation
\* only while the drift score is above 0.
kEnforceCoherence_ClearedByMolt(s, windowSize) ==
    LET s1 == Bump(s, "coherence_checks")
    IN  IF computeVariance(SliceLast(s1.ledger, windowSize)) > 5 /\ s1.driftScore > 0
        THEN Throw(Bump(s1, "coherence_violations"), E_coherence)
        ELSE Ok(s1)

kEnforceCoherence(s, windowSize) ==
    LET s1 == Bump(s, "coherence_checks")
    IN  IF computeVariance(SliceLast(s1.ledger, windowSize)) > 5
        THEN Throw(Bump(s1, "coherence_violations"), E_coherence)
        ELSE Ok(s1)

\* SecureMoltKernel.enforceCoherence: fn is synchronous, so its throws reach
\* the catch of executeSecure.
sEnforceCoherence(s, windowSize) ==
    LET g == rateGate(s, "enforceCoherence")
    IN  IF ~g.ok THEN g
        ELSE IF windowSize < 1 \/ windowSize > 1000
        THEN caught(g.s, "enforceCoherence", E_window)
        ELSE LET c == kEnforceCoherence(g.s, windowSize)
             IN  IF c.ok THEN Ok(audit(c.s, "enforceCoherence", TRUE, NoDetails))
                 ELSE caught(c.s, "enforceCoherence", c.err)

\* { ...a, ...b }
Spread(a, b) ==
    [f \in (DOMAIN a) \cup (DOMAIN b) |-> IF f \in DOMAIN b THEN b[f] ELSE a[f]]

\* A replay that stops at the first action of the tail.
replayLedger_First(actions, base) ==
    IF actions = <<>> THEN base
    ELSE Spread(base, [lastAction |-> Head(actions)])

\* actions.reduce((state, action) => ({ ...state, lastAction: action }), base)
RECURSIVE replayLedger(_, _)
replayLedger(actions, base) ==
    IF actions = <<>> THEN base
    ELSE replayLedger(Tail(actions), Spread(base, [lastAction |-> Head(actions)]))

\* MoltLifeKernel.rehydrate, which SecureMoltKernel does not override.
rehydrate(cap, ledgerSince) ==
    LET base == cap.frozenState
    IN  Spread(base, replayLedger(ledgerSince, base))

--------------------------------------------------------------------------
\* witness

\* The deadline of a call that set no timer.
NoTimer == 0

\* A witness call as the model keeps it: the action the approver was (or
\* would be) given, when its timer is due, how the call stands (pending:
\* waiting in Promise.race; returned: it gave `value`; failed: it threw
\* `error`), and the approver's promise (none: the approver was not called;
\* running; answered with `answer`; threw).
Call(action, deadline, status, value, error, approver) ==
    [action |-> action, deadline |-> deadline, status |-> status,
     value |-> value, error |-> error, approver |-> approver, answer |-> FALSE]

\* The threshold test with <= for <.
LowRisk_Inclusive(action) == OrZero(Get(action, "risk", 0)) <= WITNESS_REQUIRED

\* (action.risk || 0) < THRESHOLDS.WITNESS_REQUIRED
LowRisk(action) == OrZero(Get(action, "risk", 0)) < WITNESS_REQUIRED

\* witness counting the call before it looks for the callback.
kWitnessStart_CountsFirst(s, action, timeout) ==
    IF LowRisk(action)
    THEN [s |-> s, call |-> Call(action, NoTimer, "returned", TRUE, E_none, "none")]
    ELSE IF ~witnessCallback
    THEN [s |-> Bump(s, "witness_calls"),
          call |-> Call(action, NoTimer, "failed", FALSE, E_nowitness, "none")]
    ELSE [s |-> Bump(s, "witness_calls"),
          call |-> Call(action, now + timeout, "pending", FALSE, E_none, "running")]

\* MoltLifeKernel.witness up to its await: the state and the call.
kWitnessStart(s, action, timeout) ==
    IF LowRisk(action)
    THEN [s |-> s, call |-> Call(action, NoTimer, "returned", TRUE, E_none, "none")]
    ELSE IF ~witnessCallback
    THEN [s |-> s, call |-> Call(action, NoTimer, "failed", FALSE, E_nowitness, "none")]
    ELSE [s |-> Bump(s, "witness_calls"),
          call |-> Call(action, now + timeout, "pending", FALSE, E_none, "running")]

\* witness returning the answer without recording the decision.
kWitnessAnswer_NoRecord(s, call, result) ==
    [s |-> Bump(s, IF result THEN "witness_approvals" ELSE "witness_rejections"),
     call |-> [call EXCEPT !.approver = "answered", !.answer = result,
                           !.status = "returned", !.value = result]]

\* MoltLifeKernel.witness after the race was won by the approver's answer:
\* the decision is counted and appended (by this.append), and an error of
\* the append lands in the catch that counts timeouts.
kWitnessAnswer(s, call, result) ==
    LET s1 == Bump(s, IF result THEN "witness_approvals" ELSE "witness_rejections")
        a == thisAppend(s1, [type |-> S_witness_decision,
                             payload |-> [approved |-> result, action |-> call.action]])
        done == [call EXCEPT !.approver = "answered", !.answer = result]
    IN  IF a.ok
        THEN [s |-> a.s, call |-> [done EXCEPT !.status = "returned", !.value = result]]
        ELSE [s |-> Bump(a.s, "witness_timeouts"),
              call |-> [done EXCEPT !.status = "failed", !.error = a.err]]

\* A gate that fails open: the timer resolves the race with true.
kWitnessReject_Approves(s, call, err) ==
    [s |-> Bump(s, "witness_timeouts"),
     call |-> [call EXCEPT !.status = IF err = E_timeout THEN "returned" ELSE "failed",
                           !.value = (err = E_timeout), !.error = err,
                           !.approver = IF err = E_timeout THEN @ ELSE "threw"]]

\* MoltLifeKernel.witness after the race was lost: the timer rejected, or
\* the approver's promise did (err says which).
kWitnessReject(s, call, err) ==
    [s |-> Bump(s, "witness_timeouts"),
     call |-> [call EXCEPT !.status = "failed", !.error = err,
                           !.approver = IF err = E_timeout THEN @ ELSE "threw"]]

\* SecureMoltKernel.witness after super.witness settled: a result is
\* audited; fn is async, so a failure rejects the promise that executeSecure
\* returned and is not audited.
sWitnessSettled(w) ==
    IF w.call.status = "returned"
    THEN [w EXCEPT !.s = audit(@, "witness", TRUE, [approved |-> w.call.value])]
    ELSE w

\* A governed witness that validates the action before it asks the limiter.
sWitnessStart_ValidatesFirst(s, action, timeout) ==
    IF ~validate(action)
    THEN [s |-> [s EXCEPT !.securityMetrics = [@ EXCEPT !.sanitization_blocks = @ + 1]],
          call |-> Call(action, NoTimer, "failed", FALSE, E_validation, "none")]
    ELSE LET g == rateGate(s, "witness")
         IN  IF ~g.ok
             THEN [s |-> g.s, call |-> Call(action, NoTimer, "failed", FALSE, g.err, "none")]
             ELSE sWitnessSettled(kWitnessStart(g.s, sanitize(action, "object"), timeout))

\* SecureMoltKernel.witness up to the await of super.witness.  Of the
\* failures only the rate limit is audited.
sWitnessStart(s, action, timeout) ==
    LET g == rateGate(s, "witness")
    IN  IF ~g.ok
        THEN [s |-> g.s, call |-> Call(action, NoTimer, "failed", FALSE, g.err, "none")]
        ELSE IF ~validate(action)
        THEN [s |-> [g.s EXCEPT !.securityMetrics =
                         [@ EXCEPT !.sanitization_blocks = @ + 1]],
              call |-> Call(action, NoTimer, "failed", FALSE, E_validation, "none")]
        ELSE sWitnessSettled(kWitnessStart(g.s, sanitize(action, "object"), timeout))

--------------------------------------------------------------------------
\* The callers' inputs.

A_query == [type |-> <<"q">>, payload |-> [text |-> <<"H", "i">>]]
A_stamped == [type |-> <<"t">>, payload |-> [text |-> <<"&">>], risk |-> 50,
              timestamp |-> 99, ledgerIndex |-> 7]
A_edge == [type |-> <<"e">>, payload |-> [text |-> <<"x">>], risk |-> 70]
A_delete == [type |-> <<"d", "e", "l">>, payload |-> [files |-> << <<"<", "a", ">">> >>],
             risk |-> 90]
A_pay == [type |-> <<"p", "a", "y">>, payload |-> [text |-> <<"1">>], risk |-> 100]
A_invalid == [type |-> <<"b">>, payload |-> [text |-> <<"x">>], risk |-> 200]

Keys == {"agent_id"}
Values == {"demo", "other"}

--------------------------------------------------------------------------
\* The actions: one public call, or one event a pending witness waits for.

Ret(op, ok, err) == [op |-> op, ok |-> ok, err |-> err]

Pending == {c \in DOMAIN calls : calls[c].status = "pending"}

Finish(r, op) ==
    /\ Commit(r.s)
    /\ ret' = Ret(op, r.ok, r.err)
    /\ UNCHANGED <<config, now, calls>>

Tick ==
    /\ now < MaxTime
    /\ now' = now + 1
    /\ UNCHANGED <<config, kernelVars, secureVars, calls, ret>>

DoAppend(action) == Finish(thisAppend(St, action), "append")

DoMolt == Finish(thisMolt(St), "molt")

DoHeartbeat == Finish(IF secure THEN sHeartbeat(St) ELSE kHeartbeat(St), "heartbeat")

DoEnforceCoherence(windowSize) ==
    Finish(IF secure THEN sEnforceCoherence(St, windowSize)
           ELSE kEnforceCoherence(St, windowSize), "enforceCoherence")

\* setInvariant on a kernel whose capsule shares the map of frozen
\* invariants instead of holding a copy of it.
DoSetInvariant_WritesThrough(key, value) ==
    /\ frozenInvariants' =
           [k \in (DOMAIN frozenInvariants) \cup {key} |->
               IF k = key THEN value ELSE frozenInvariants[k]]
    /\ capsule' = IF capsule = NoCapsule THEN capsule
                  ELSE [capsule EXCEPT !.frozenState = frozenInvariants']
    /\ ret' = Ret("setInvariant", TRUE, E_none)
    /\ UNCHANGED <<config, now, ledger, lastHeartbeat, driftScore,
                   shellVersion, metrics, secureVars, calls>>

DoSetInvariant(key, value) ==
    /\ frozenInvariants' =
           [k \in (DOMAIN frozenInvariants) \cup {key} |->
               IF k = key THEN value ELSE frozenInvariants[k]]
    /\ ret' = Ret("setInvariant", TRUE, E_none)
    /\ UNCHANGED <<config, now, ledger, capsule, lastHeartbeat, driftScore,
                   shellVersion, metrics, secureVars, calls>>

\* witness(action, timeout) up to its first wait.
DoWitness(action, timeout) ==
    /\ LET w == IF secure THEN sWitnessStart(St, action, timeout)
                ELSE kWitnessStart(St, action, timeout)
       IN  /\ Commit(w.s)
           /\ calls' = Append(calls, w.call)
    /\ UNCHANGED <<config, now, ret>>

\* The rest of witness, once the race of call c is settled as w.
Settle(c, w0) ==
    LET w == IF secure THEN sWitnessSettled(w0) ELSE w0
    IN  /\ Commit(w.s)
        /\ calls' = [calls EXCEPT ![c] = w.call]
        /\ UNCHANGED <<config, now, ret>>

\* An answer that is applied whenever it comes, the race lost or not.
ApproverAnswers_AppliesLate(c, result) ==
    /\ calls[c].approver = "running"
    /\ Settle(c, kWitnessAnswer(St, calls[c], result))

\* One approval at a time: an answer waits for the calls made before it.
ApproverAnswers_Serialized(c, result) ==
    /\ calls[c].approver = "running"
    /\ \A d \in Pending : d >= c
    /\ IF calls[c].status = "pending"
       THEN Settle(c, kWitnessAnswer(St, calls[c], result))
       ELSE /\ calls' = [calls EXCEPT ![c].approver = "answered", ![c].answer = result]
            /\ UNCHANGED <<config, now, kernelVars, secureVars, ret>>

\* The approver's promise of call c resolves with `result`.  If the timer
\* has already rejected the race, the promise's result goes nowhere.
ApproverAnswers(c, result) ==
    /\ calls[c].approver = "running"
    /\ IF calls[c].status = "pending"
       THEN Settle(c, kWitnessAnswer(St, calls[c], result))
       ELSE /\ calls' = [calls EXCEPT ![c].approver = "answered", ![c].answer = result]
            /\ UNCHANGED <<config, now, kernelVars, secureVars, ret>>

\* The approver's promise of call c rejects.
ApproverThrows(c) ==
    /\ calls[c].approver = "running"
    /\ IF calls[c].status = "pending"
       THEN Settle(c, kWitnessReject(St, calls[c], E_approver))
       ELSE /\ calls' = [calls EXCEPT ![c].approver = "threw"]
            /\ UNCHANGED <<config, now, kernelVars, secureVars, ret>>

\* A timer that does not wait for its delay.
TimerFires_Early(c) ==
    /\ calls[c].status = "pending"
    /\ Settle(c, kWitnessReject(St, calls[c], E_timeout))

\* The timer of call c fires while the race is open.
TimerFires(c) ==
    /\ calls[c].status = "pending"
    /\ now >= calls[c].deadline
    /\ Settle(c, kWitnessReject(St, calls[c], E_timeout))

--------------------------------------------------------------------------
\* The calls that only read: what each returns is an operator on the state,
\* and the call itself assigns to no field.

getSnapshot == [ledger |-> ledger, capsule |-> capsule, drift |-> driftScore]

\* getMetrics of MoltLifeKernel, to which SecureMoltKernel adds security; it
\* throws when metrics are disabled.
getMetrics ==
    LET base == Spread(metrics, [drift_score |-> driftScore, uptime_ms |-> now])
    IN  IF ~metricsEnabled THEN [ok |-> FALSE, err |-> "Metrics disabled"]
        ELSE [ok |-> TRUE, err |-> E_none,
              value |-> IF secure THEN Spread(base, [security |-> securityMetrics])
                        ELSE base]

\* A health report that a low approval rate turns into a warning.
getHealth_RateWarns ==
    LET heartbeatAge == now - lastHeartbeat
        drifted == DriftGT(driftScore, MOLT_REQUIRED)
        lowRate == metrics.witness_calls > 0
                   /\ 2 * metrics.witness_approvals < metrics.witness_calls
    IN  [status |-> IF heartbeatAge > HEARTBEAT_CRITICAL THEN "critical"
                    ELSE IF heartbeatAge > HEARTBEAT_WARNING \/ drifted \/ lowRate
                    THEN "warning"
                    ELSE "healthy",
         drift |-> driftScore,
         ledger_integrity |-> TRUE,
         last_heartbeat_age_ms |-> heartbeatAge,
         warnings |->
             (IF heartbeatAge > HEARTBEAT_CRITICAL THEN <<"Heartbeat critically overdue">>
              ELSE IF heartbeatAge > HEARTBEAT_WARNING THEN <<"Heartbeat overdue">>
              ELSE <<>>)
             \o (IF drifted THEN <<"Drift score high">> ELSE <<>>)
             \o (IF lowRate THEN <<"Low witness approval rate">> ELSE <<>>),
         recommendations |->
             (IF heartbeatAge > HEARTBEAT_CRITICAL THEN <<"Call heartbeat() immediately">>
              ELSE <<>>)
             \o (IF drifted THEN <<"Consider molt() to reset drift">> ELSE <<>>)]

getHealth ==
    LET heartbeatAge == now - lastHeartbeat
        drifted == DriftGT(driftScore, MOLT_REQUIRED)
        lowRate == metrics.witness_calls > 0
                   /\ 2 * metrics.witness_approvals < metrics.witness_calls
    IN  [status |-> IF heartbeatAge > HEARTBEAT_CRITICAL THEN "critical"
                    ELSE IF heartbeatAge > HEARTBEAT_WARNING \/ drifted THEN "warning"
                    ELSE "healthy",
         drift |-> driftScore,
         ledger_integrity |-> TRUE,
         last_heartbeat_age_ms |-> heartbeatAge,
         warnings |->
             (IF heartbeatAge > HEARTBEAT_CRITICAL THEN <<"Heartbeat critically overdue">>
              ELSE IF heartbeatAge > HEARTBEAT_WARNING THEN <<"Heartbeat overdue">>
              ELSE <<>>)
             \o (IF drifted THEN <<"Drift score high">> ELSE <<>>)
             \o (IF lowRate THEN <<"Low witness approval rate">> ELSE <<>>),
         recommendations |->
             (IF heartbeatAge > HEARTBEAT_CRITICAL THEN <<"Call heartbeat() immediately">>
              ELSE <<>>)
             \o (IF drifted THEN <<"Consider molt() to reset drift">> ELSE <<>>)]

DoGetSnapshot == UNCHANGED vars

DoGetMetrics == UNCHANGED vars

DoGetHealth == UNCHANGED vars

\* rehydrate(capsule, ledgerSince), whatever its arguments.
DoRehydrate == UNCHANGED vars

--------------------------------------------------------------------------
\* The specification.

\* After the constructor.  rateCalls holds an empty window where the code's
\* Map has no entry yet: check creates the entry empty before it reads it.
InitWith(classes, callbacks, metricsModes) ==
    /\ secure \in classes
    /\ witnessCallback \in callbacks
    /\ metricsEnabled \in metricsModes
    /\ heartbeatInterval = HeartbeatMs
    /\ now = 0
    /\ ledger = <<>>
    /\ capsule = NoCapsule
    /\ lastHeartbeat = 0
    /\ driftScore = 0
    /\ frozenInvariants = <<>>
    /\ shellVersion = 1
    /\ metrics = InitMetrics
    /\ rateCalls = [op \in DOMAIN rateLimits |-> <<>>]
    /\ auditLog = <<>>
    /\ securityMetrics = InitSecurityMetrics
    /\ calls = <<>>
    /\ ret = Ret("constructor", TRUE, E_none)

Init == InitWith(BOOLEAN, BOOLEAN, BOOLEAN)

\* The caps that keep a specification finite.  Room: the ledger can take an
\* entry beyond the decisions that pending witness calls may still append.
\* AuditRoom: the governed kernel has audited fewer than MaxAudit calls.
\* WitnessRoom: another witness call may start, and its timer is due before
\* the clock stops.
Room == Len(ledger) + Cardinality(Pending) < MaxLedger
AuditRoom == secure => securityMetrics.audit_events < MaxAudit
WitnessRoom(timeout) ==
    Len(calls) < MaxWitness /\ now + timeout <= MaxTime /\ Room /\ AuditRoom
ChecksRoom == AuditRoom /\ (metricsEnabled => metrics.coherence_checks < MaxChecks)
HeartbeatRoom == AuditRoom /\ (DriftGT(driftScore, MOLT_REQUIRED) => Room)

\* Every operation, on either class; the caller makes one witness call.
Next ==
    \/ Tick
    \/ Room /\ AuditRoom /\ DoAppend(A_query)
    \/ Room /\ AuditRoom /\ DoMolt
    \/ HeartbeatRoom /\ DoHeartbeat
    \/ ChecksRoom /\ DoEnforceCoherence(2)
    \/ DoSetInvariant("agent_id", "demo")
    \/ calls = <<>> /\ WitnessRoom(1) /\ DoWitness(A_delete, 1)
    \/ \E c \in DOMAIN calls, b \in BOOLEAN : ApproverAnswers(c, b)
    \/ \E c \in DOMAIN calls : ApproverThrows(c)
    \/ \E c \in DOMAIN calls : TimerFires(c)
    \/ DoGetSnapshot
    \/ DoGetMetrics
    \/ DoGetHealth
    \/ DoRehydrate

Spec == InitWith(BOOLEAN, {TRUE}, {TRUE}) /\ [][Next]_vars

\* The approval gate: witness calls, concurrent ones included, on either
\* class and under every configuration.
Timeouts == {MinTimeout, MaxTimeout}

NextWitness ==
    \/ Tick
    \/ \E a \in {A_query, A_stamped, A_edge, A_delete}, t \in Timeouts :
           WitnessRoom(t) /\ DoWitness(a, t)
    \/ \E c \in DOMAIN calls, b \in BOOLEAN : ApproverAnswers(c, b)
    \/ \E c \in DOMAIN calls : ApproverThrows(c)
    \/ \E c \in DOMAIN calls : TimerFires(c)

SpecWitness == Init /\ [][NextWitness]_vars

\* The calls that wait: witness calls for an action at the threshold.
NextWait ==
    \/ Tick
    \/ \E t \in Timeouts : WitnessRoom(t) /\ DoWitness(A_edge, t)
    \/ \E c \in DOMAIN calls, b \in BOOLEAN : ApproverAnswers(c, b)
    \/ \E c \in DOMAIN calls : ApproverThrows(c)
    \/ \E c \in DOMAIN calls : TimerFires(c)

\* The event loop runs a timer that is due, and time passes.
FairSpecWitness ==
    /\ Init /\ [][NextWait]_vars
    /\ WF_vars(Tick)
    /\ \A c \in 1..MaxWitness : WF_vars(c \in DOMAIN calls /\ TimerFires(c))

\* The ledger alone: append calls and nothing else, on either class.
NextAppend ==
    \E a \in {A_query, A_stamped, A_edge, A_delete, A_pay, A_invalid} :
        Room /\ AuditRoom /\ DoAppend(a)

SpecAppend == InitWith(BOOLEAN, {TRUE}, BOOLEAN) /\ [][NextAppend]_vars

\* Drift up to saturation: long runs of appends, on either class, with one
\* molt at any point.  SaturateRoom stops the ledger, AuditSlack the number
\* of audited calls that left no entry.
SaturateRoom == Len(ledger) < MaxSaturateLedger
AuditSlack == secure => securityMetrics.audit_events < Len(ledger) + MaxAudit

NextSaturate ==
    \/ SaturateRoom /\ AuditSlack /\ DoAppend(A_query)
    \/ SaturateRoom /\ AuditSlack /\ shellVersion = 1 /\ DoMolt

SpecSaturate == InitWith(BOOLEAN, {TRUE}, BOOLEAN) /\ [][NextSaturate]_vars

\* Drift around the molt threshold: appends, heartbeats and molts, on either
\* class.  The caller appends in bursts: time passes, and molt is called,
\* only between bursts, and a burst ends on one of the drift scores around
\* the molt threshold.
BurstEnds == {0, MOLT_REQUIRED - 1, MOLT_REQUIRED, MOLT_REQUIRED + 1}
DriftRoom == Len(ledger) < MaxDriftLedger
MoltRoom == DriftRoom /\ shellVersion <= MaxMolts

NextDrift ==
    \/ driftScore \in BurstEnds /\ Tick
    \/ DriftRoom /\ AuditSlack /\ DoAppend(A_query)
    \/ driftScore \in BurstEnds /\ MoltRoom /\ AuditSlack /\ DoMolt
    \/ /\ DriftGT(driftScore, MOLT_REQUIRED) => MoltRoom
       /\ AuditSlack
       /\ DoHeartbeat

SpecDrift == InitWith(BOOLEAN, {TRUE}, BOOLEAN) /\ [][NextDrift]_vars

\* The heartbeat on a drifting ledger: appends, the clock, set_invariant and
\* heartbeat calls on either class, and no molt but the heartbeat's own.
\* HeartbeatSlack lets a caller make one heartbeat call more than the
\* governed kernel's limit allows.
HeartbeatSlack ==
    secure => securityMetrics.audit_events < Len(ledger) + HeartbeatMaxCalls + 1
NextHeartbeat ==
    \/ driftScore \in BurstEnds /\ Tick
    \/ DriftRoom /\ HeartbeatSlack /\ DoAppend(A_query)
    \/ driftScore \in BurstEnds /\ DoSetInvariant("agent_id", "demo")
    \/ /\ DriftGT(driftScore, MOLT_REQUIRED) => DriftRoom
       /\ HeartbeatSlack
       /\ DoHeartbeat
SpecHeartbeat == InitWith(BOOLEAN, {TRUE}, BOOLEAN) /\ [][NextHeartbeat]_vars

\* Recovery as the quickstart does it: getSnapshot, then rehydrate with the
\* snapshot's capsule and the ledger from position k on, if there is a
\* capsule.  ret keeps the arguments beside the value returned.
Recover(k) ==
    LET snapshot == getSnapshot
        ledgerSince == SubSeq(snapshot.ledger, k + 1, Len(snapshot.ledger))
    IN  /\ snapshot.capsule # NoCapsule
        /\ ret' = [op |-> "rehydrate", ok |-> TRUE, err |-> E_none,
                   capsule |-> snapshot.capsule, ledgerSince |-> ledgerSince,
                   value |-> rehydrate(snapshot.capsule, ledgerSince)]
        /\ UNCHANGED <<config, now, kernelVars, secureVars, calls>>

\* Recovery: invariants frozen under either of two keys, one of them the
\* key that the replay writes, appends, heartbeats and recoveries from every
\* position of the ledger.
FrozenKeys == {"agent_id", "lastAction"}
NextRehydrate ==
    \/ Tick
    \/ Room /\ AuditRoom /\ DoAppend(A_query)
    \/ \E key \in FrozenKeys : DoSetInvariant(key, "demo")
    \/ HeartbeatRoom /\ DoHeartbeat
    \/ \E k \in 0..Len(ledger) : Recover(k)
SpecRehydrate == InitWith(BOOLEAN, {TRUE}, {TRUE}) /\ [][NextRehydrate]_vars

\* The rate limiter at work: the governed kernel's calls against their
\* limits while the clock runs.  RateRoom lets the caller go on until the
\* audit ring has turned over.
RateRoom == securityMetrics.audit_events < MaxAudit + AuditCap
NextRate ==
    \/ Tick
    \/ Room /\ RateRoom /\ DoAppend(A_query)
    \/ Room /\ RateRoom /\ DoMolt
    \/ RateRoom /\ (DriftGT(driftScore, MOLT_REQUIRED) => Room) /\ DoHeartbeat
    \/ RateRoom /\ DoEnforceCoherence(2)
SpecRate == InitWith({TRUE}, {TRUE}, {TRUE}) /\ [][NextRate]_vars

\* Governance at one instant: every governed call, with valid and invalid
\* arguments, with and without an approver, and the approver's answers.
NextGovern ==
    \/ \E a \in {A_query, A_invalid} : Room /\ AuditRoom /\ DoAppend(a)
    \/ Room /\ AuditRoom /\ DoMolt
    \/ HeartbeatRoom /\ DoHeartbeat
    \/ \E windowSize \in {0, 2} : AuditRoom /\ DoEnforceCoherence(windowSize)
    \/ \E a \in {A_query, A_delete, A_invalid} :
           /\ Len(calls) < MaxWitness /\ Room /\ AuditRoom
           /\ DoWitness(a, MinTimeout)
    \/ \E c \in DOMAIN calls, b \in BOOLEAN : ApproverAnswers(c, b)
    \/ \E c \in DOMAIN calls : ApproverThrows(c)
SpecGovern == InitWith({TRUE}, BOOLEAN, {TRUE}) /\ [][NextGovern]_vars

\* A busy governed kernel: a burst of appends within one window of the
\* limiter and, at any point of it, a witness call that the approver answers.
NextBusy ==
    \/ SaturateRoom /\ AuditSlack /\ DoAppend(A_query)
    \/ calls = <<>> /\ DoWitness(A_delete, MinTimeout)
    \/ \E c \in DOMAIN calls, b \in BOOLEAN : ApproverAnswers(c, b)
SpecBusy == InitWith({TRUE}, {TRUE}, {TRUE}) /\ [][NextBusy]_vars

\* Coherence over a long ledger: appends, and enforceCoherence with no
\* window, a window of the length at which the variance changes, and one
\* entry more.
Windows == {0, VARIANCE_WINDOW, VARIANCE_WINDOW + 1}
NextCoherence ==
    \/ SaturateRoom /\ AuditSlack /\ DoAppend(A_query)
    \/ \E windowSize \in Windows :
           /\ metricsEnabled => metrics.coherence_checks < MaxChecks
           /\ AuditSlack
           /\ DoEnforceCoherence(windowSize)
SpecCoherence == InitWith(BOOLEAN, {TRUE}, BOOLEAN) /\ [][NextCoherence]_vars

\* Health: one witness call on the empty ledger and the approver's answer,
\* then a ledger that drifts past the threshold while the clock runs, a
\* heartbeat, and getHealth in every state.
NextHealth ==
    \/ driftScore \in BurstEnds /\ Tick
    \/ DriftRoom /\ AuditSlack /\ DoAppend(A_query)
    \/ /\ DriftGT(driftScore, MOLT_REQUIRED) => DriftRoom
       /\ AuditSlack
       /\ DoHeartbeat
    \/ calls = <<>> /\ ledger = <<>> /\ DoWitness(A_delete, MaxTimeout)
    \/ \E c \in DOMAIN calls, b \in BOOLEAN : ledger = <<>> /\ ApproverAnswers(c, b)
    \/ DoGetHealth
SpecHealth == InitWith(BOOLEAN, {TRUE}, BOOLEAN) /\ [][NextHealth]_vars

\* The sanitizer by itself: validate and sanitize are static and read no
\* state, so the calls leave the kernel alone and ret keeps the argument
\* beside the value returned.
MaxLen == 2

\* A type of n characters.
TypeOfLength(n) == [i \in 1..n |-> "a"]
TypeLengths == {0, 1, 2, MAX_TYPE_LENGTH - 1, MAX_TYPE_LENGTH, MAX_TYPE_LENGTH + 1}

\* Risks in hundredths: below, at and above each end of [0, 1], 2.0, and NaN.
Risks == {0 - 100, 0 - 1, 0, 1, 50, 99, 100, 101, 200, NaN}

\* An action with or without a type, and with or without a risk.
MakeAction(hasType, n, hasRisk, risk) ==
    LET base == [payload |-> [text |-> <<"x">>]]
        typed == IF hasType THEN Spread(base, [type |-> TypeOfLength(n)]) ELSE base
    IN  IF hasRisk THEN Spread(typed, [risk |-> risk]) ELSE typed

ValidateInputs ==
    {MakeAction(hasType, n, hasRisk, risk) :
        hasType \in BOOLEAN, n \in TypeLengths, hasRisk \in BOOLEAN, risk \in Risks}

\* Strings of the characters that the escape rewrites, and one it leaves.
Alphabet == {"<", ">", "\"", "'", "&", "a"}
Strings == UNION {[1..k -> Alphabet] : k \in 0..MaxLen}

\* The <script> block of the sanitizer's example, a script tag that the
\* removal of a block puts together, and the other patterns.
T_example == <<"<", "s", "c", "r", "i", "p", "t", ">", "a", "l", "e", "r", "t", "(", "1", ")",
               "<", "/", "s", "c", "r", "i", "p", "t", ">", "H", "i">>
T_nested == <<"<", "s", "c", "r">> \o <<"<", "s", "c", "r", "i", "p", "t", ">",
              "<", "/", "s", "c", "r", "i", "p", "t", ">">> \o <<"i", "p", "t", ">">>
T_handler == <<"<", "a", " ", "o", "n", "c", "l", "i", "c", "k", " ", "=", "'", "x", "'", ">">>
T_uri == <<"J", "a", "v", "a", "S", "c", "r", "i", "p", "t", ":", "e", "v", "a", "l", "(",
           "\"", "1", "\"", ")">>
Samples == {T_example, T_nested, T_handler, T_uri}

\* A mapping that holds a string, a number, and a mapping with a string and
\* a sequence of strings.
MakeObject(str, other) ==
    [type |-> str, risk |-> 50, payload |-> [text |-> other, files |-> <<str, other>>]]
Objects == {MakeObject(str, other) : str \in Samples \cup {<<"<">>, <<"a", "'">>},
                                      other \in Samples \cup {<<>>, <<"\"", ">">>}}

Validate(action) ==
    /\ ret' = [op |-> "validate", ok |-> TRUE, err |-> E_none,
               action |-> action, value |-> validate(action)]
    /\ UNCHANGED <<config, now, kernelVars, secureVars, calls>>

Sanitize(input, kind) ==
    /\ ret' = [op |-> "sanitize", ok |-> TRUE, err |-> E_none,
               input |-> input, kind |-> kind, value |-> sanitize(input, kind)]
    /\ UNCHANGED <<config, now, kernelVars, secureVars, calls>>

NextSanitizer ==
    \/ \E action \in ValidateInputs : Validate(action)
    \/ \E str \in Strings \cup Samples : Sanitize(str, "string")
    \/ \E files \in {<<a, b>> : a \in Samples, b \in Samples} : Sanitize(files, "array")
    \/ \E obj \in Objects : Sanitize(obj, "object")
SpecSanitizer == InitWith({TRUE}, {TRUE}, {TRUE}) /\ [][NextSanitizer]_vars

\* Coherence across reconfigurations: a burst of appends up to the length
\* at which the variance changes, a pause, and then appends, molts,
\* heartbeats and coherence checks, on either class.  The windows are one
\* entry, the lengths around the one at which the variance changes, and one
\* more than the governed kernel allows.
BurstDone == Len(ledger) = VARIANCE_WINDOW - 1
LongLedger == Len(ledger) >= VARIANCE_WINDOW - 1
ViolationRoom == Len(ledger) < VARIANCE_WINDOW + MaxLedger
ViolationSlack == secure => securityMetrics.audit_events < Len(ledger) + MaxAudit
CoherenceWindows ==
    {1, VARIANCE_WINDOW, VARIANCE_WINDOW + 1, VARIANCE_WINDOW + 2, 1001}
NextViolation ==
    \/ BurstDone /\ Tick
    \/ ViolationRoom /\ ViolationSlack /\ DoAppend(A_query)
    \/ LongLedger /\ ViolationRoom /\ ViolationSlack /\ DoMolt
    \/ LongLedger /\ ViolationSlack /\ DoHeartbeat
    \/ \E windowSize \in CoherenceWindows :
           /\ LongLedger
           /\ metricsEnabled => metrics.coherence_checks <= MaxChecks
           /\ ViolationSlack
           /\ DoEnforceCoherence(windowSize)
SpecViolation == InitWith(BOOLEAN, {TRUE}, BOOLEAN) /\ [][NextViolation]_vars

\* Reconfiguration under the limiter: the governed kernel, with molt calls
\* and heartbeats on a ledger that drifts past the threshold, until the
\* window of molt that began with the kernel has passed.  The caller appends in bursts that end
\* above the threshold: time passes, and molt and heartbeat are called,
\* between bursts.
Horizon == WindowLong
Wait ==
    /\ now < Horizon
    /\ now' = now + 1
    /\ UNCHANGED <<config, kernelVars, secureVars, calls, ret>>

Idle == driftScore \in {0, MOLT_REQUIRED + 1}
NextMolt ==
    \/ Idle /\ Wait
    \/ DriftRoom /\ AuditSlack /\ DoAppend(A_query)
    \/ Idle /\ MoltRoom /\ AuditSlack /\ DoMolt
    \/ Idle /\ MoltRoom /\ AuditSlack /\ DoHeartbeat
SpecMolt == InitWith({TRUE}, {TRUE}, {TRUE}) /\ [][NextMolt]_vars

--------------------------------------------------------------------------
\* Properties.

IsPrefix(a, b) == Len(a) <= Len(b) /\ SubSeq(b, 1, Len(a)) = a

HasType(entry, type) == entry.type = type

\* C1: the ledger is append-only.  Across every step of every operation, of
\* the continuity kernel and of the governed kernel, the ledger before the
\* step is a prefix of the ledger after it.
C1_LedgerAppendOnly == [][IsPrefix(ledger, ledger')]_vars

\* A full ledger that holds a molt entry, under a capsule taken by a
\* heartbeat, after a witness call was settled.
C1_Witness ==
    /\ Len(ledger) = MaxLedger
    /\ \E i \in DOMAIN ledger : HasType(ledger[i], S_molt)
    /\ capsule # NoCapsule
    /\ \E c \in DOMAIN calls : calls[c].status # "pending"

\* C2: from a fresh kernel and under append calls alone, every entry's
\* ledgerIndex is its 0-based position, whatever ledgerIndex or timestamp
\* the caller put in the action, and each append call that returns adds
\* exactly one entry at the end (so that N calls give a ledger of length N);
\* an append of the continuity kernel always returns.
C2_AppendCountsAndIndexes ==
    /\ [](\A k \in DOMAIN ledger :
            /\ ledger[k].ledgerIndex = k - 1
            /\ ledger[k].timestamp <= now)
    /\ [][/\ ~secure => ret'.ok
          /\ ret'.ok => Len(ledger') = Len(ledger) + 1 /\ IsPrefix(ledger, ledger')
          /\ ~ret'.ok => ledger' = ledger]_vars

\* A full ledger whose last entry came from an action in which the caller
\* had put a ledgerIndex and a timestamp of its own.
C2_Witness ==
    /\ Len(ledger) = MaxLedger
    /\ ledger[MaxLedger].type = A_stamped.type
    /\ A_stamped.ledgerIndex # MaxLedger - 1

\* C3: every entry of the ledger carries a ledgerIndex equal to its 0-based
\* position.  The entry that molt pushes carries none.
C3_IndexIsPosition ==
    \A i \in DOMAIN ledger :
        "ledgerIndex" \in DOMAIN ledger[i] /\ ledger[i].ledgerIndex = i - 1

--------------------------------------------------------------------------
\* The approval gate.

Risk(call) == Get(call.action, "risk", 0)

WitnessCounters ==
    <<metrics.witness_calls, metrics.witness_approvals,
      metrics.witness_rejections, metrics.witness_timeouts>>

\* C4: a witness call whose action has risk >= 0.7 returns true only on a
\* true answer of the registered approver, invoked for that very call, given
\* while the call's race was still open (its timer had not fired).  It
\* never returns true by default, by timeout, or on the answer to another
\* call: the step that makes it return true is the step in which its own
\* approver answers true, and it changes no other call.
C4_TrueOnlyByOwnApproval ==
    /\ [](\A c \in DOMAIN calls :
            (Risk(calls[c]) >= WITNESS_REQUIRED
                /\ calls[c].status = "returned" /\ calls[c].value)
            => /\ witnessCallback
               /\ calls[c].approver = "answered"
               /\ calls[c].answer
               /\ calls[c].error # E_timeout)
    /\ [][\A c \in DOMAIN calls' :
            (Risk(calls'[c]) >= WITNESS_REQUIRED
                /\ calls'[c].status = "returned" /\ calls'[c].value
                /\ (c \in DOMAIN calls => calls[c].status # "returned"))
            => /\ c \in DOMAIN calls
               /\ calls[c].status = "pending"
               /\ calls[c].approver = "running"
               /\ \A d \in DOMAIN calls : d # c => calls'[d] = calls[d]]_vars

\* A high-risk call that returned true while another one, left without an
\* answer, failed by timeout.
C4_Witness ==
    \E c, d \in DOMAIN calls :
        /\ Risk(calls[c]) >= WITNESS_REQUIRED
        /\ calls[c].status = "returned" /\ calls[c].value
        /\ calls[d].status = "failed" /\ calls[d].error = E_timeout

\* C5: a witness call whose (valid) action has no risk, or a risk below 0.7,
\* returns true at once (in the governed kernel: unless the rate limit
\* refuses the call), and it invokes no approver, appends nothing to the
\* ledger, leaves the drift and the four witness counters as they were.  A
\* risk of exactly 0.7 is not approved by this path: such a call never
\* returns at its start.
C5_LowRiskAutoApproved ==
    [][Len(calls') = Len(calls) + 1 =>
        LET new == calls'[Len(calls')]
        IN  IF Risk(new) < WITNESS_REQUIRED
            THEN /\ new.error # E_rate => new.status = "returned" /\ new.value
                 /\ new.error = E_rate => secure /\ new.status = "failed"
                 /\ new.approver = "none"
                 /\ ledger' = ledger
                 /\ driftScore' = driftScore
                 /\ WitnessCounters' = WitnessCounters
            ELSE new.status # "returned"]_vars

\* An action without risk and one of risk 0.5 were approved at once, by a
\* kernel that has an approver, and one of risk exactly 0.7 was not.
C5_Witness ==
    /\ witnessCallback
    /\ ledger = <<>>
    /\ Len(calls) = MaxWitness
    /\ \E c \in DOMAIN calls :
         /\ "risk" \notin DOMAIN calls[c].action
         /\ calls[c].status = "returned" /\ calls[c].value
    /\ \E c \in DOMAIN calls :
         /\ Risk(calls[c]) = WITNESS_REQUIRED
         /\ calls[c].status = "pending"

\* C6: on a kernel without an approver, a witness call whose (valid) action
\* has risk >= 0.7 fails at once with the configuration error (in the
\* governed kernel: unless the rate limit refused the call first), and the
\* ledger, the drift and the four witness counters stay as they were.
C6_NoApproverFailsClean ==
    [][(Len(calls') = Len(calls) + 1 /\ ~witnessCallback
            /\ Risk(calls'[Len(calls')]) >= WITNESS_REQUIRED) =>
        LET new == calls'[Len(calls')]
        IN  /\ new.status = "failed"
            /\ new.error \in {E_nowitness, E_rate}
            /\ new.error = E_rate => secure
            /\ new.approver = "none"
            /\ ledger' = ledger
            /\ driftScore' = driftScore
            /\ WitnessCounters' = WitnessCounters]_vars

\* Two high-risk calls failed with the configuration error on a kernel
\* that has no approver.
C6_Witness ==
    /\ ~witnessCallback
    /\ Len(calls) = MaxWitness
    /\ \A c \in DOMAIN calls :
         /\ Risk(calls[c]) >= WITNESS_REQUIRED
         /\ calls[c].status = "failed" /\ calls[c].error = E_nowitness

\* The step in which the approver of call c answers while the race of c is
\* open.
AnsweredInTime(c) ==
    /\ c \in DOMAIN calls
    /\ calls[c].status = "pending"
    /\ calls'[c].approver = "answered"

\* What C7 says of such a step of the continuity kernel, the counters
\* being counted when `counted` holds.
DecisionRecorded(c, counted) ==
    LET b == calls'[c].answer
    IN  /\ Len(ledger') = Len(ledger) + 1
        /\ IsPrefix(ledger, ledger')
        /\ ledger'[Len(ledger')].type = S_witness_decision
        /\ ledger'[Len(ledger')].payload = [approved |-> b, action |-> calls[c].action]
        /\ counted =>
             /\ metrics'.witness_approvals =
                    metrics.witness_approvals + (IF b THEN 1 ELSE 0)
             /\ metrics'.witness_rejections =
                    metrics.witness_rejections + (IF b THEN 0 ELSE 1)
        /\ metrics'.witness_timeouts = metrics.witness_timeouts
        /\ calls'[c].status = "returned"
        /\ calls'[c].value = b

\* C7: in the continuity kernel, when the approver answers before the timer
\* fires, exactly one entry of type witness_decision holding the approver's
\* boolean and the action is appended, the boolean is returned and, with
\* metrics enabled, exactly one of the approvals and rejections counters is
\* incremented, the one that matches the boolean.
C7_DecisionRecorded ==
    [][\A c \in DOMAIN calls :
         (~secure /\ AnsweredInTime(c)) => DecisionRecorded(c, metricsEnabled)]_vars

\* C7 as the specification words it: the counter is incremented whatever
\* the configuration.
C7_Original ==
    [][\A c \in DOMAIN calls :
         (~secure /\ AnsweredInTime(c)) => DecisionRecorded(c, TRUE)]_vars

\* A continuity kernel with metrics enabled whose approver answered false
\* to one call and true to another, both in time.
C7_Witness ==
    /\ ~secure /\ metricsEnabled
    /\ Len(ledger) = 2
    /\ metrics.witness_approvals = 1 /\ metrics.witness_rejections = 1
    /\ \E c, d \in DOMAIN calls :
         /\ calls[c].status = "returned" /\ calls[c].approver = "answered"
         /\ ~calls[c].value
         /\ calls[d].status = "returned" /\ calls[d].approver = "answered"
         /\ calls[d].value

\* The step in which the timer of call c ends the race.
TimedOut(c) ==
    /\ c \in DOMAIN calls
    /\ calls[c].status = "pending"
    /\ calls'[c].status = "failed"
    /\ calls'[c].error = E_timeout

\* Every waiting call gets out of its wait.
WaitsEnd ==
    \A c \in 1..MaxWitness :
        (c \in DOMAIN calls /\ calls[c].status = "pending")
            ~> (c \in DOMAIN calls /\ calls[c].status # "pending")

\* A call that is over while its approver is still silent failed by
\* timeout, and a timeout never comes before the delay has elapsed.
SilentCallsTimeOut ==
    \A c \in DOMAIN calls :
        /\ (calls[c].status # "pending" /\ calls[c].approver = "running")
             => calls[c].status = "failed" /\ calls[c].error = E_timeout
        /\ calls[c].error = E_timeout => now >= calls[c].deadline

\* What a timeout leaves behind, the timeout counter being counted when
\* `counted` holds.
TimeoutRecorded(counted) ==
    \A c \in DOMAIN calls :
        TimedOut(c) =>
          /\ ledger' = ledger
          /\ counted => metrics'.witness_timeouts = metrics.witness_timeouts + 1
          /\ metrics'.witness_approvals = metrics.witness_approvals
          /\ metrics'.witness_rejections = metrics.witness_rejections

\* C8: a high-risk witness call on a kernel with an approver always
\* eventually completes.  A call whose approver has not answered completes
\* only by failing with the timeout error, not before its timeout has
\* elapsed, appending no decision and, with metrics enabled, incrementing
\* the timeout counter by one.
C8_BoundedWait ==
    /\ WaitsEnd
    /\ []SilentCallsTimeOut
    /\ [][TimeoutRecorded(metricsEnabled)]_vars

\* C8 as the specification words it: the timeout counter is incremented
\* whatever the configuration.
C8_Original ==
    /\ WaitsEnd
    /\ []SilentCallsTimeOut
    /\ [][TimeoutRecorded(TRUE)]_vars

\* A call failed by timeout with its approver still silent, counted once,
\* the ledger empty.
C8_Witness ==
    /\ metricsEnabled
    /\ ledger = <<>>
    /\ metrics.witness_timeouts = 1
    /\ \E c \in DOMAIN calls :
         /\ calls[c].status = "failed" /\ calls[c].error = E_timeout
         /\ calls[c].approver = "running"
         /\ calls[c].deadline > NoTimer /\ now >= calls[c].deadline

\* C9: once a witness call has failed by timeout, the answer (or the
\* failure) that its approver delivers later is discarded: the step that
\* delivers it appends nothing, changes no counter and no other state of the
\* kernel, and the call stays failed by timeout.
C9_LateAnswerDiscarded ==
    [][\A c \in DOMAIN calls :
         (calls[c].status = "failed" /\ calls[c].error = E_timeout
             /\ calls[c].approver = "running" /\ calls'[c].approver # "running")
         => /\ UNCHANGED <<kernelVars, secureVars, ret, config>>
            /\ calls'[c].status = "failed"
            /\ calls'[c].error = E_timeout
            /\ calls'[c].value = calls[c].value]_vars

\* The approver answered true to a call that had already failed by timeout:
\* nothing was recorded.
C9_Witness ==
    /\ ledger = <<>>
    /\ metrics.witness_approvals = 0
    /\ \E c \in DOMAIN calls :
         /\ calls[c].status = "failed" /\ calls[c].error = E_timeout
         /\ calls[c].approver = "answered" /\ calls[c].answer

\* The decision entry that a call leaves in the ledger: the governed kernel
\* sanitizes the entry once more on its way into the ledger.
OwnDecision(entry, call) ==
    /\ entry.type = S_witness_decision
    /\ entry.payload.approved = call.answer
    /\ entry.payload.action =
           IF secure THEN sanitize(call.action, "object") ELSE call.action

\* C10: concurrent witness calls do not serialize.  While a call waits
\* another call can start, and while several calls wait each of them races
\* its own approver against its own timer: its timer can fire as soon as it
\* is due and its approver's promise can settle, whatever the other calls
\* are doing (the start of another call and the approver's answer are
\* evaluated on the continuity kernel, whose witness the governed kernel
\* calls); a step that settles one call changes no other call, and the
\* decision it appends is that call's own.
C10_ConcurrentCallsIndependent ==
    /\ [](\A c \in Pending :
            /\ (~secure /\ WitnessRoom(MinTimeout)) => ENABLED DoWitness(A_edge, MinTimeout)
            /\ Pending # {c} =>
                 /\ now >= calls[c].deadline => ENABLED TimerFires(c)
                 /\ ENABLED ApproverThrows(c)
                 /\ ~secure => \A b \in BOOLEAN : ENABLED ApproverAnswers(c, b))
    /\ [][\A c \in DOMAIN calls :
            calls'[c] # calls[c] =>
              /\ \A d \in DOMAIN calls : d # c => calls'[d] = calls[d]
              /\ Len(ledger') <= Len(ledger) + 1
              /\ Len(ledger') = Len(ledger) + 1 =>
                    OwnDecision(ledger'[Len(ledger')], calls'[c])]_vars

\* Two calls for different actions were waiting together; the later one
\* was answered first and the earlier one after it, with the other answer.
C10_Witness ==
    /\ Len(calls) = 2 /\ Len(ledger) = 2
    /\ calls[1].action.type # calls[2].action.type
    /\ calls[1].status = "returned" /\ calls[2].status = "returned"
    /\ calls[1].answer # calls[2].answer
    /\ ledger[1].payload.approved = calls[2].answer
    /\ ledger[1].payload.action.type = calls[2].action.type
    /\ ledger[2].payload.action.type = calls[1].action.type

--------------------------------------------------------------------------
\* Drift, reconfiguration and the heartbeat.

\* A step that appended one entry other than a molt entry: an append call,
\* or the append of a witness decision.
Appended ==
    /\ Len(ledger') = Len(ledger) + 1
    /\ ledger'[Len(ledger')].type # S_molt

\* A step that reconfigured: a molt call, or a heartbeat that molted.
Molted ==
    /\ Len(ledger') = Len(ledger) + 1
    /\ ledger'[Len(ledger')].type = S_molt

\* C11: in every reachable state the drift score lies in [0,1] (0 to 100
\* increments of 0.01), and each append raises it by one increment,
\* saturating at 1: on a further append it stays 1.
C11_DriftBoundedAndStepped ==
    /\ [](driftScore \in 0..100)
    /\ [][Appended => driftScore' = Min(driftScore + 1, 100)]_vars

\* More than 100 appends without a reconfiguration: the drift score is 1.
C11_Witness ==
    /\ shellVersion = 1
    /\ Len(ledger) > 100
    /\ driftScore = 100

\* C12: drift is a ratchet.  The only step after which the drift score is
\* lower than before is one that reconfigured (a molt call, or a heartbeat
\* that molted), and it leaves the score at 0; every other step of append,
\* witness, heartbeat, enforceCoherence, rehydrate, setInvariant and the
\* reads leaves it as it was or higher.
C12_DriftRatchet ==
    [][/\ driftScore' < driftScore => Molted /\ driftScore' = 0
       /\ ~Molted => driftScore' >= driftScore]_vars

\* After an append raised the drift, and a heartbeat, a coherence check, a
\* setInvariant and a witness call left it there, a molt brought it to 0.
C12_Witness ==
    /\ driftScore = 0
    /\ Len(ledger) = 2
    /\ ledger[1].type # S_molt /\ ledger[2].type = S_molt
    /\ capsule # NoCapsule
    /\ frozenInvariants # <<>>
    /\ metrics.coherence_checks >= 1
    /\ calls # <<>> /\ Pending = {}

\* A step of an effective heartbeat: only heartbeat assigns lastHeartbeat,
\* and only past its interval test.
Heartbeat ==
    lastHeartbeat' # lastHeartbeat

\* C13: on a kernel that has not reconfigured, after exactly 35 appends the
\* drift score is at least 0.35, and an effective heartbeat in that state
\* reconfigures: it pushes a molt entry, the shell version goes from 1 to 2
\* and the drift score returns to 0.
C13_ThirtyFiveAppendsThenMolt ==
    /\ []((shellVersion = 1 /\ Len(ledger) = 35)
            => driftScore = 35 /\ driftScore >= MOLT_REQUIRED)
    /\ [][(shellVersion = 1 /\ Len(ledger) = 35 /\ Heartbeat)
            => Molted /\ shellVersion' = 2 /\ driftScore' = 0]_vars

\* The first heartbeat came after exactly 35 appends and molted.
C13_Witness ==
    /\ shellVersion = 2
    /\ driftScore = 0
    /\ Len(ledger) = 36
    /\ ledger[36].type = S_molt
    /\ capsule # NoCapsule
    /\ capsule.ledgerCheckpoint = 35
    /\ capsule.shellVersion = 1

\* C14: whatever the drift score before it, a molt call that is not
\* refused sets the drift score to 0, raises the shell version by exactly 1
\* and appends exactly one entry, of type molt, that records the reason and
\* the new shell version; the continuity kernel refuses no molt.
C14_MoltResets ==
    [][ret'.op = "molt" =>
        /\ ~secure => ret'.ok
        /\ ret'.ok =>
             /\ driftScore' = 0
             /\ shellVersion' = shellVersion + 1
             /\ Len(ledger') = Len(ledger) + 1
             /\ IsPrefix(ledger, ledger')
             /\ ledger'[Len(ledger')].type = S_molt
             /\ ledger'[Len(ledger')].payload.reason = S_drift_threshold
             /\ ledger'[Len(ledger')].payload.newShellVersion = shellVersion']_vars

\* A molt called at saturation, after more than 100 appends.
C14_Witness ==
    /\ ret = Ret("molt", TRUE, E_none)
    /\ Len(ledger) > 101
    /\ ledger[Len(ledger)].type = S_molt
    /\ shellVersion = 2
    /\ driftScore = 0

\* The reconfigurations performed so far: each wrote one molt entry, and no
\* caller of these specifications appends an entry of that type.
Reconfigurations == Cardinality({i \in DOMAIN ledger : ledger[i].type = S_molt})

\* C15: the shell version is 1 after construction, never decreases, and
\* in every reachable state is 1 plus the number of reconfigurations performed
\* so far, by molt calls and by heartbeats; a step that changes it is a molt
\* or a heartbeat that reconfigures, and raises it by exactly 1.
C15_ShellVersionCountsMolts ==
    /\ shellVersion = 1
    /\ [](shellVersion = 1 + Reconfigurations)
    /\ [][/\ shellVersion' >= shellVersion
          /\ shellVersion' # shellVersion =>
               /\ ret'.op \in {"molt", "heartbeat"}
               /\ Molted
               /\ shellVersion' = shellVersion + 1]_vars

\* A molt call, 36 appends, and a reconfiguration by the next heartbeat.
C15_Witness ==
    /\ shellVersion = 3
    /\ Len(ledger) = 38
    /\ ledger[1].type = S_molt
    /\ ledger[38].type = S_molt
    /\ ret = Ret("heartbeat", TRUE, E_none)

\* A heartbeat call made before heartbeatInterval has passed since the last
\* effective heartbeat, or since construction.
EarlyHeartbeat ==
    /\ ret'.op = "heartbeat"
    /\ now' = now
    /\ now - lastHeartbeat < heartbeatInterval

\* What the early heartbeat leaves alone.
EarlyHeartbeatFrame ==
    /\ UNCHANGED <<capsule, lastHeartbeat, ledger, driftScore, shellVersion>>
    /\ metrics' = metrics

\* C16: a heartbeat called before the interval has elapsed leaves the
\* capsule, the last-heartbeat timestamp, the ledger, the drift score, the
\* shell version and the heartbeat counters unchanged, whatever the drift; it
\* raises no error on the continuity kernel, and on the governed kernel none
\* but the rate-limit error of a heartbeat beyond the limit.
C16_EarlyHeartbeatIsNoOp ==
    [][EarlyHeartbeat =>
        /\ EarlyHeartbeatFrame
        /\ ~secure => ret'.ok
        /\ ~ret'.ok => ret'.err = E_rate
                       /\ ~check(rateCalls["heartbeat"], rateLimits["heartbeat"]).allowed]_vars

\* C16 as stated: the early heartbeat raises no error on either class.
C16_Original ==
    [][EarlyHeartbeat => EarlyHeartbeatFrame /\ ret'.ok]_vars

\* An early heartbeat has returned on a kernel whose drift is above the
\* threshold: nothing was checkpointed and nothing reconfigured.
C16_Witness ==
    /\ ret = Ret("heartbeat", TRUE, E_none)
    /\ now - lastHeartbeat < heartbeatInterval
    /\ DriftGT(driftScore, MOLT_REQUIRED)
    /\ Len(ledger) = driftScore
    /\ capsule = NoCapsule
    /\ shellVersion = 1

\* A heartbeat call made once heartbeatInterval has passed, which the
\* governed kernel's rate limiter lets through to the kernel.
EffectiveHeartbeat ==
    /\ ret'.op = "heartbeat"
    /\ now' = now
    /\ now - lastHeartbeat >= heartbeatInterval
    /\ secure => check(rateCalls["heartbeat"], rateLimits["heartbeat"]).allowed

\* C17: an effective heartbeat stores a new capsule whose ledger
\* checkpoint is the ledger length at that moment, whose frozen state is the
\* frozen invariants set so far and whose shell version is the shell version
\* at that moment, sets the last-heartbeat timestamp to now, and then
\* reconfigures if and only if the drift score exceeds the molt threshold.
C17_EffectiveHeartbeatCheckpoints ==
    [][EffectiveHeartbeat =>
        /\ ret'.ok
        /\ capsule' # NoCapsule
        /\ capsule'.timestamp = now
        /\ capsule'.ledgerCheckpoint = Len(ledger)
        /\ capsule'.frozenState = frozenInvariants
        /\ capsule'.shellVersion = shellVersion
        /\ lastHeartbeat' = now
        /\ Molted <=> DriftGT(driftScore, MOLT_REQUIRED)
        /\ ~Molted => UNCHANGED <<ledger, driftScore, shellVersion>>
        /\ Molted => driftScore' = 0 /\ shellVersion' = shellVersion + 1]_vars

\* An effective heartbeat has checkpointed a drifted kernel that holds a
\* frozen invariant, and has then reconfigured it.
C17_Witness ==
    /\ ret = Ret("heartbeat", TRUE, E_none)
    /\ lastHeartbeat = now
    /\ capsule # NoCapsule
    /\ capsule.frozenState = [agent_id |-> "demo"]
    /\ capsule.ledgerCheckpoint = 36
    /\ capsule.shellVersion = 1
    /\ Len(ledger) = 37
    /\ ledger[37].type = S_molt
    /\ shellVersion = 2
    /\ driftScore = 0

\* A heartbeat call that reaches the kernel with the interval elapsed and
\* fails there.
FailedHeartbeat ==
    /\ ret'.op = "heartbeat"
    /\ now' = now
    /\ now - lastHeartbeat >= heartbeatInterval
    /\ secure => check(rateCalls["heartbeat"], rateLimits["heartbeat"]).allowed
    /\ ~ret'.ok

\* C18: when a heartbeat fails, for example because the governed
\* kernel refuses the nested molt, the error counter is incremented (where
\* metrics are kept), the capsule and the last-heartbeat timestamp are those
\* of before the call, so that a retry is not an early heartbeat, and the
\* ledger keeps its entries.
C18_FailedHeartbeatLeavesCheckpoint ==
    [][FailedHeartbeat =>
        /\ metricsEnabled => metrics'.errors = metrics.errors + 1
        /\ capsule' = capsule
        /\ lastHeartbeat' = lastHeartbeat
        /\ now - lastHeartbeat' >= heartbeatInterval
        /\ IsPrefix(ledger, ledger')]_vars

\* C19: the kernel holds no capsule until the first effective heartbeat
\* and one from then on; the capsule it holds changes in no step but an
\* effective heartbeat, which replaces it by the checkpoint of that moment:
\* setInvariant, append, witness and molt leave it as it is.
C19_CapsuleOnlyReplaced ==
    /\ capsule = NoCapsule
    /\ [](capsule = NoCapsule <=> metrics.heartbeat_count = 0)
    /\ [][capsule' # capsule =>
            /\ ret'.op = "heartbeat"
            /\ UNCHANGED <<now, calls, frozenInvariants>>
            /\ now - lastHeartbeat >= heartbeatInterval
            /\ capsule' = createCapsule(St)]_vars

\* After a checkpoint of the empty kernel, a witness decision was appended,
\* the kernel was reconfigured and an invariant was frozen: the capsule is
\* still the checkpoint of the empty kernel.
C19_Witness ==
    /\ capsule # NoCapsule
    /\ capsule.ledgerCheckpoint = 0
    /\ capsule.frozenState = <<>>
    /\ capsule.shellVersion = 1
    /\ frozenInvariants = [agent_id |-> "demo"]
    /\ Len(ledger) = 2
    /\ ledger[1].type = S_witness_decision
    /\ ledger[2].type = S_molt
    /\ shellVersion = 2

\* C20: rehydrate changes no kernel state, and what it returns is
\* fixed by its arguments: for a non-empty tail the frozen state with
\* lastAction set to the last element of the tail and every other key as it
\* was; for an empty tail the frozen state itself, with no lastAction added.
C20_RehydrateIsPureReplay ==
    /\ [][ret'.op = "rehydrate" /\ ret' # ret =>
            UNCHANGED <<config, now, kernelVars, secureVars, calls>>]_vars
    /\ [](ret.op = "rehydrate" =>
            LET frozenState == ret.capsule.frozenState
                tail == ret.ledgerSince
            IN  IF tail = <<>> THEN ret.value = frozenState
                ELSE /\ ret.value.lastAction = tail[Len(tail)]
                     /\ DOMAIN ret.value = DOMAIN frozenState \cup {"lastAction"}
                     /\ \A key \in DOMAIN frozenState \ {"lastAction"} :
                            ret.value[key] = frozenState[key])

\* A recovery from a capsule with two frozen keys over a tail of two
\* entries has returned the second.
C20_Witness ==
    /\ ret.op = "rehydrate"
    /\ DOMAIN ret.capsule.frozenState = FrozenKeys
    /\ Len(ret.ledgerSince) = 2
    /\ ret.ledgerSince[1] # ret.ledgerSince[2]
    /\ ret.value.lastAction = ledger[2]
    /\ ret.value.agent_id = "demo"

--------------------------------------------------------------------------
\* Governance: the rate limiter, the audit log and the governed calls.

\* The timestamps recorded for `operation` that are less than a window old
\* at time t, in the order they were recorded.
Survivors(operation, t) ==
    SelectSeq(rateCalls[operation],
              LAMBDA time : t - time < rateLimits[operation].windowMs)

\* A step in which a governed operation is called: witness starts a call of
\* its own, every other operation leaves its outcome in ret.
CallOf(operation) ==
    /\ now' = now
    /\ IF operation = "witness" THEN Len(calls') = Len(calls) + 1
       ELSE calls' = calls /\ ret'.op = operation

\* The call made in this step failed with err.
Failed(operation, err) ==
    IF operation = "witness"
    THEN calls'[Len(calls')].status = "failed" /\ calls'[Len(calls')].error = err
    ELSE ret' = Ret(operation, FALSE, err)

\* A step in which the limiter admitted, or refused, a call of `operation`.
Admitted(operation) ==
    /\ now' = now
    /\ rateCalls'[operation] = Append(Survivors(operation, now), now)
Refused(operation) ==
    /\ now' = now
    /\ Failed(operation, E_rate)
    /\ rateCalls'[operation] = Survivors(operation, now)

\* C21: for every operation and at every instant, at most maxCalls
\* of the recorded timestamps are less than a window old; and a call is
\* admitted, its timestamp recorded, exactly when the timestamps that survive
\* the eviction of those a window old or older are fewer than maxCalls.
C21_RateLimiterSafety ==
    /\ [](\A operation \in DOMAIN rateLimits :
             Len(Survivors(operation, now)) <= rateLimits[operation].maxCalls)
    /\ [][\A operation \in DOMAIN rateLimits :
             /\ Admitted(operation) =>
                    Len(Survivors(operation, now)) < rateLimits[operation].maxCalls
             /\ CallOf(operation) =>
                    IF Len(Survivors(operation, now)) < rateLimits[operation].maxCalls
                    THEN Admitted(operation)
                    ELSE Refused(operation)]_vars

\* A window that is full, and whose last call was refused.
C21_Witness ==
    /\ ret = Ret("enforceCoherence", FALSE, E_rate)
    /\ Len(Survivors("enforceCoherence", now)) = CoherenceMaxCalls
    /\ Len(Survivors("molt", now)) = MoltMaxCalls

\* A step in which a call of `operation`, made directly or by heartbeat, was
\* refused by the limiter: the refusal is the event audited last.
RefusedCall(operation) ==
    /\ now' = now
    /\ securityMetrics'.audit_events = securityMetrics.audit_events + 1
    /\ auditLog'[Len(auditLog')] =
           [timestamp |-> now, operation |-> operation, success |-> FALSE,
            details |-> [reason |-> "rate_limit"]]

\* C22: a call that finds maxCalls timestamps inside the window is
\* refused; a refused call records no timestamp; and a call made once a
\* window has passed since the oldest recorded timestamp is admitted.
C22_RefusalAndRecovery ==
    [][\A operation \in DOMAIN rateLimits :
          /\ (CallOf(operation)
                /\ Len(Survivors(operation, now)) = rateLimits[operation].maxCalls)
               => RefusedCall(operation) /\ Failed(operation, E_rate)
          /\ RefusedCall(operation) =>
                /\ rateCalls'[operation] = Survivors(operation, now)
                /\ Len(rateCalls'[operation]) <= Len(rateCalls[operation])
          /\ (CallOf(operation) /\ rateCalls[operation] # <<>>
                /\ now - rateCalls[operation][1] >= rateLimits[operation].windowMs)
               => Admitted(operation)]_vars

\* Two calls filled the window, a third was refused, and after the window
\* had passed the next call was admitted.
C22_Witness ==
    /\ now >= WindowShort
    /\ securityMetrics.audit_events = CoherenceMaxCalls + 2
    /\ securityMetrics.rate_limit_violations = 1
    /\ Len(auditLog) >= 2
    /\ auditLog[Len(auditLog) - 1].operation = "enforceCoherence"
    /\ ~auditLog[Len(auditLog) - 1].success
    /\ auditLog[Len(auditLog)] =
           [timestamp |-> now, operation |-> "enforceCoherence", success |-> TRUE,
            details |-> NoDetails]
    /\ rateCalls["enforceCoherence"] = <<now>>

\* C23: a governed call that finds its operation's limit reached fails
\* with the rate-limit error, is audited once as failed, and is counted as a
\* violation; neither validation nor the kernel's operation runs, so the
\* ledger, the drift score, the shell version, the capsule, the kernel's
\* metrics and the count of validation blocks are as before, invalid action
\* or not.
C23_RateLimitFirst ==
    [][\A operation \in DOMAIN rateLimits :
          (CallOf(operation)
             /\ Len(Survivors(operation, now)) >= rateLimits[operation].maxCalls)
          => /\ Failed(operation, E_rate)
             /\ RefusedCall(operation)
             /\ securityMetrics' =
                    [securityMetrics EXCEPT !.rate_limit_violations = @ + 1,
                                            !.audit_events = @ + 1]
             /\ UNCHANGED <<ledger, driftScore, shellVersion, capsule, metrics,
                            lastHeartbeat, frozenInvariants>>]_vars

\* A witness call for an invalid action was refused by the limiter while an
\* earlier call was waiting: nothing was validated and nothing appended.
C23_Witness ==
    /\ Len(calls) = 2
    /\ calls[1].status = "pending"
    /\ calls[2].action = A_invalid
    /\ calls[2].status = "failed"
    /\ calls[2].error = E_rate
    /\ securityMetrics.rate_limit_violations = 1
    /\ securityMetrics.sanitization_blocks = 0
    /\ auditLog = << [timestamp |-> now, operation |-> "witness", success |-> FALSE,
                      details |-> [reason |-> "rate_limit"]] >>
    /\ ledger = <<>>

\* The event audited last in this step is a failure of `operation`.
AuditedFailure(operation) ==
    /\ securityMetrics'.audit_events = securityMetrics.audit_events + 1
    /\ auditLog'[Len(auditLog')].operation = operation
    /\ ~auditLog'[Len(auditLog')].success

\* C24: a governed append or witness call whose action fails
\* validation fails with the validation error, and an audit event with
\* success false for that operation is appended to the audit log.
C24_ValidationFailureAudited ==
    [][\A operation \in {"append", "witness"} :
          /\ (CallOf(operation) /\ Failed(operation, E_validation))
               => AuditedFailure(operation)
          /\ (CallOf("witness") /\ ~validate(calls'[Len(calls')].action)
                /\ Len(Survivors("witness", now)) < rateLimits["witness"].maxCalls)
               => Failed("witness", E_validation)]_vars

\* A step in which a pending witness call fails.
WitnessFails ==
    \E c \in DOMAIN calls : calls[c].status = "pending" /\ calls'[c].status = "failed"

\* The errors of the continuity kernel's operations.
KernelErrors == {E_timeout, E_nowitness, E_approver, E_coherence}

\* C25: when the continuity kernel's operation fails under a governed
\* call, an audit event with success false and the error is appended and the
\* security error counter is incremented; when it succeeds, an audit event
\* with success true is appended.
C25_DelegatedOutcomeAudited ==
    [][/\ \A operation \in DOMAIN rateLimits :
             /\ (CallOf(operation) /\ \E err \in KernelErrors : Failed(operation, err))
                  => /\ AuditedFailure(operation)
                     /\ securityMetrics'.security_errors =
                            securityMetrics.security_errors + 1
             /\ (CallOf(operation) /\ operation # "witness" /\ ret'.ok)
                  => /\ securityMetrics'.audit_events > securityMetrics.audit_events
                     /\ auditLog'[Len(auditLog')].operation = operation
                     /\ auditLog'[Len(auditLog')].success
       /\ WitnessFails
            => /\ AuditedFailure("witness")
               /\ securityMetrics'.security_errors = securityMetrics.security_errors + 1]_vars

\* C26: a rehydrate call on the governed kernel goes through
\* governance: the limiter is asked for rehydrate, the call being refused
\* once the limit is reached within the window, and the outcome is audited.
C26_RehydrateGoverned ==
    [][(secure /\ ret'.op = "rehydrate" /\ ret' # ret) =>
          /\ IF Len(Survivors("rehydrate", now)) < rateLimits["rehydrate"].maxCalls
             THEN Admitted("rehydrate")
             ELSE RefusedCall("rehydrate") /\ ~ret'.ok
          /\ securityMetrics'.audit_events = securityMetrics.audit_events + 1
          /\ auditLog'[Len(auditLog')].operation = "rehydrate"]_vars

\* C27: in the governed kernel, when the approver of a valid high-risk
\* witness call that the witness limit admitted answers before the timeout, a
\* witness_decision entry with the approver's boolean is appended to the
\* ledger and the boolean is returned to the caller.
C27_GovernedDecisionRecorded ==
    [][\A c \in DOMAIN calls :
         (secure /\ AnsweredInTime(c) /\ now < calls[c].deadline) =>
            /\ Len(ledger') = Len(ledger) + 1
            /\ ledger'[Len(ledger')].type = S_witness_decision
            /\ ledger'[Len(ledger')].payload.approved = calls'[c].answer
            /\ calls'[c].status = "returned"
            /\ calls'[c].value = calls'[c].answer]_vars

\* The last n elements of seq, all of it if it is shorter.
LastN(seq, n) == SubSeq(seq, Len(seq) - Min(n, Len(seq)) + 1, Len(seq))

\* C28: the audit log is a bounded first-in first-out ring.  Its
\* length is the lesser of the number of events audited so far and the
\* capacity; a step that audits appends its events at the end, one per
\* increment of the audit-event counter, and evicts from the front just
\* what exceeds the capacity, the rest keeping its order; no other step
\* changes the log.
C28_AuditRing ==
    /\ [](Len(auditLog) = Min(securityMetrics.audit_events, AuditCap))
    /\ [][LET k == securityMetrics'.audit_events - securityMetrics.audit_events
          IN  /\ k \in 0..AuditCap
              /\ k <= Len(auditLog')
              /\ auditLog' = LastN(auditLog \o LastN(auditLog', k), AuditCap)
              /\ k = 0 => auditLog' = auditLog
              /\ (k = 1 /\ Len(auditLog) = AuditCap) =>
                    /\ SubSeq(auditLog', 1, AuditCap - 1) = Tail(auditLog)
                    /\ auditLog'[AuditCap].timestamp = now]_vars

\* More events were audited than the log holds: it is full, and holds the
\* newest in the order they were audited.
C28_Witness ==
    /\ securityMetrics.audit_events = AuditCap + 2
    /\ Len(auditLog) = AuditCap
    /\ auditLog[1].timestamp < auditLog[AuditCap].timestamp
    /\ auditLog[AuditCap].timestamp = now

\* C29: on the continuity kernel enforceCoherence(windowSize), for a
\* windowSize of 0 or more, examines the last min(windowSize, ledger length)
\* entries: it fails with the coherence error, and counts a violation where
\* metrics are kept, exactly when those are more than 50 entries, and
\* otherwise returns; either way the ledger, the drift score, the shell
\* version and the capsule are unchanged.
C29_CoherenceWindow ==
    [][\A windowSize \in Windows :
          (~secure /\ DoEnforceCoherence(windowSize)) =>
             LET examined == Min(windowSize, Len(ledger))
             IN  /\ ret'.ok <=> ~(examined > VARIANCE_WINDOW)
                 /\ ~ret'.ok => ret'.err = E_coherence
                 /\ metricsEnabled =>
                       metrics'.coherence_violations =
                           metrics.coherence_violations + (IF ret'.ok THEN 0 ELSE 1)
                 /\ UNCHANGED <<ledger, driftScore, shellVersion, capsule>>]_vars

--------------------------------------------------------------------------
\* Health.

\* The age of the last heartbeat, and the approval rate being under a half.
HeartbeatAge == now - lastHeartbeat
LowApprovalRate ==
    metrics.witness_calls > 0 /\ 2 * metrics.witness_approvals < metrics.witness_calls

\* C30: getHealth changes no state of the kernel.  It reports
\* critical exactly when the heartbeat age exceeds the critical age;
\* otherwise warning exactly when the age exceeds the warning age or the
\* drift score exceeds the molt threshold; otherwise healthy.  An approval
\* rate under a half adds a warning message and leaves the status alone.
C30_HealthStatus ==
    /\ [][DoGetHealth => UNCHANGED vars]_vars
    /\ [](/\ getHealth.status = "critical" <=> HeartbeatAge > HEARTBEAT_CRITICAL
          /\ getHealth.status = "warning" <=>
                /\ ~(HeartbeatAge > HEARTBEAT_CRITICAL)
                /\ HeartbeatAge > HEARTBEAT_WARNING \/ DriftGT(driftScore, MOLT_REQUIRED)
          /\ getHealth.status = "healthy" <=>
                /\ ~(HeartbeatAge > HEARTBEAT_WARNING)
                /\ ~DriftGT(driftScore, MOLT_REQUIRED)
          /\ LowApprovalRate <=>
                \E i \in DOMAIN getHealth.warnings :
                    getHealth.warnings[i] = "Low witness approval rate")

\* The approver has rejected the only witness call: the kernel reports
\* itself healthy, with the warning about the approval rate.
C30_Witness ==
    /\ metrics.witness_calls = 1
    /\ metrics.witness_rejections = 1
    /\ HeartbeatAge = 0
    /\ getHealth.status = "healthy"
    /\ getHealth.warnings = <<"Low witness approval rate">>

--------------------------------------------------------------------------
\* The sanitizer.

\* What the contract of validate accepts: a type that is a non-empty string
\* of at most 100 characters, and a risk that is absent or a number in [0, 1].
Acceptable(action) ==
    /\ "type" \in DOMAIN action
    /\ action.type # <<>>
    /\ Len(action.type) <= MAX_TYPE_LENGTH
    /\ "risk" \in DOMAIN action =>
           action.risk # NaN /\ 0 <= action.risk /\ action.risk <= 100

\* C31: validate accepts an action if and only if its type is a non-empty
\* string of at most 100 characters and its risk is absent or a number in
\* [0, 1].
C31_ValidateAcceptsExactly ==
    ret.op = "validate" => (ret.value <=> Acceptable(ret.action))

\* A string without the raw characters <, >, " and ', and a string that
\* holds the tag <script>.
RawCharacters == {"<", ">", "\"", "'"}
Escaped(str) == \A i \in DOMAIN str : str[i] \notin RawCharacters
HasScriptTag(str) == \E i \in DOMAIN str : HasAt(str, i, P_script \o <<">">>)

\* C32: a sanitized string holds none of the raw characters <, >, " and ',
\* hence no <script>; sanitize of a sequence or of a mapping gives the same
\* structure, with every string in it sanitized and every other leaf as it
\* was.
C32_SanitizeEscapesEveryString ==
    ret.op = "sanitize" =>
        /\ ret.kind = "string" =>
               Escaped(ret.value) /\ ~HasScriptTag(ret.value)
        /\ ret.kind = "array" =>
               /\ DOMAIN ret.value = DOMAIN ret.input
               /\ \A i \in DOMAIN ret.input :
                      /\ Escaped(ret.value[i])
                      /\ ret.value[i] = sanitize(ret.input[i], "string")
        /\ ret.kind = "object" =>
               /\ DOMAIN ret.value = DOMAIN ret.input
               /\ DOMAIN ret.value.payload = DOMAIN ret.input.payload
               /\ ret.value.risk = ret.input.risk
               /\ Escaped(ret.value.type)
               /\ ret.value.type = sanitize(ret.input.type, "string")
               /\ Escaped(ret.value.payload.text)
               /\ ret.value.payload.text = sanitize(ret.input.payload.text, "string")
               /\ ret.value.payload.files = sanitize(ret.input.payload.files, "array")
               /\ \A i \in DOMAIN ret.value.payload.files :
                      Escaped(ret.value.payload.files[i])

\* sanitize of a mapping whose type becomes <script> once the block inside
\* it is removed, and whose text is the example's: the tag is escaped, the
\* text is Hi, and the risk is as it was.
C32_Witness ==
    /\ ret.op = "sanitize"
    /\ ret.kind = "object"
    /\ ret.input = MakeObject(T_nested, T_example)
    /\ ret.value.type = E_lt \o <<"s", "c", "r", "i", "p", "t">> \o E_gt
    /\ ret.value.payload.text = <<"H", "i">>
    /\ ret.value.payload.files[2] = <<"H", "i">>
    /\ ret.value.risk = 50

\* C33: a governed append or witness call whose action fails
\* validation does not reach the continuity kernel: the ledger, the drift
\* score, the shell version, the capsule and the kernel's counters, those of
\* witness among them, are as before and the approver is not called; the
\* call fails with the validation error and the count of validation blocks
\* goes up by one.  (A call that the limiter refuses is not validated.)
C33_InvalidActionStopsAtTheGate ==
    [][\A action \in {A_query, A_delete, A_invalid} :
          /\ (secure /\ DoAppend(action) /\ ~validate(action))
               => /\ UNCHANGED <<ledger, driftScore, shellVersion, capsule, metrics, calls>>
                  /\ ~Failed("append", E_rate) =>
                         /\ Failed("append", E_validation)
                         /\ securityMetrics'.sanitization_blocks =
                                securityMetrics.sanitization_blocks + 1
          /\ (secure /\ DoWitness(action, MinTimeout) /\ ~validate(action))
               => /\ UNCHANGED <<ledger, driftScore, shellVersion, capsule, metrics>>
                  /\ calls'[Len(calls')].approver = "none"
                  /\ ~Failed("witness", E_rate) =>
                         /\ Failed("witness", E_validation)
                         /\ securityMetrics'.sanitization_blocks =
                                securityMetrics.sanitization_blocks + 1]_vars

\* A witness call and an append, each for the invalid action, have failed
\* validation on a kernel with an approver: the approver was not called and
\* the ledger is empty.
C33_Witness ==
    /\ witnessCallback
    /\ calls = <<Call(A_invalid, NoTimer, "failed", FALSE, E_validation, "none")>>
    /\ ret = Ret("append", FALSE, E_validation)
    /\ securityMetrics.sanitization_blocks = 2
    /\ ledger = <<>>
    /\ metrics = InitMetrics

--------------------------------------------------------------------------
\* Metrics.

\* C34: with metrics enabled, an append that leaves the drift score
\* above 0.35 adds exactly one to the count of drift violations and does not
\* reset the score; an append that leaves it at 0.35 or below leaves the
\* count as it was.  (The score after 35 appends is the sum of 35 increments
\* of 0.01, which is above 0.35.)
C34_DriftViolationsCounted ==
    [][(metricsEnabled /\ Appended) =>
          IF DriftGT(driftScore', MOLT_REQUIRED)
          THEN /\ metrics'.drift_violations = metrics.drift_violations + 1
               /\ driftScore' = driftScore + 1
          ELSE /\ metrics'.drift_violations = metrics.drift_violations
               /\ driftScore' = driftScore + 1]_vars

\* Thirty-seven appends without a reconfiguration: the last three were
\* counted, and the score is 0.37.
C34_Witness ==
    /\ metricsEnabled
    /\ shellVersion = 1
    /\ Len(ledger) = 37
    /\ driftScore = 37
    /\ metrics.drift_violations = 3

--------------------------------------------------------------------------
\* Governance across operations.

\* The operation whose call, or the rest of whose call, a step runs: the
\* approver's answer and the timer run the rest of a witness call.
Running ==
    IF calls' # calls THEN "witness" ELSE ret'.op

\* C35: the windows of the limiter are per operation.  A step of a
\* call of one operation leaves the window of every other operation as it
\* was, so it cannot make a call of another operation be refused.
C35_WindowsPerOperation ==
    [][now' = now =>
          \A operation \in DOMAIN rateLimits :
              operation # Running => rateCalls'[operation] = rateCalls[operation]]_vars

--------------------------------------------------------------------------
\* The kernel's counters.

\* C36: with metrics enabled, after every completed operation the
\* ledger_size metric is the length of the ledger.
C36_LedgerSizeIsLength ==
    metricsEnabled => metrics.ledger_size = Len(ledger)

\* The witness calls that reached an outcome, as the counters have them.
WitnessOutcomes ==
    metrics.witness_approvals + metrics.witness_rejections + metrics.witness_timeouts

\* C37: with metrics enabled, on either class, the approvals, rejections and
\* timeouts counted are together at most the witness calls counted, and
\* exactly as many when no witness call is pending: a call counts once, and
\* has at most one outcome.
C37_WitnessCountersBalance ==
    metricsEnabled =>
        /\ WitnessOutcomes <= metrics.witness_calls
        /\ Pending = {} => WitnessOutcomes = metrics.witness_calls

--------------------------------------------------------------------------
\* Coherence over time.

\* What enforceCoherence(windowSize) would give if it were called now, on
\* this kernel; and whether the continuity kernel's check finds a violation.
Coherence(windowSize) ==
    IF secure THEN sEnforceCoherence(St, windowSize) ELSE kEnforceCoherence(St, windowSize)
Violation(windowSize) == ~kEnforceCoherence(St, windowSize).ok

\* C38: a coherence violation is not cleared.  A call that fails with the
\* coherence error has found a violation; a violation for one window is one
\* for every larger window, and makes the call fail; and a violation for a
\* window is still one after any step, be it of append, heartbeat or molt.
\* Hence once enforceCoherence(w) has failed so for a w >= 1, every later
\* enforceCoherence(w') with w' >= w fails.
C38_ViolationPersists ==
    /\ [](\A w \in CoherenceWindows :
             /\ Coherence(w).err = E_coherence => Violation(w)
             /\ Violation(w) =>
                    \A larger \in CoherenceWindows :
                        larger >= w => Violation(larger) /\ ~Coherence(larger).ok)
    /\ [][\A w \in CoherenceWindows :
             /\ Violation(w) => Violation(w)'
             /\ (DoEnforceCoherence(w) /\ ret'.err = E_coherence) => Violation(w)']_vars

\* After a check had failed, a heartbeat reconfigured the kernel: the drift
\* score is 0 and the shell version 2, and the check that followed failed
\* again.
C38_Witness ==
    /\ metricsEnabled
    /\ metrics.coherence_violations = 2
    /\ metrics.heartbeat_count = 1
    /\ shellVersion = 2
    /\ driftScore = 0
    /\ ledger[Len(ledger)].type = S_molt
    /\ ret = Ret("enforceCoherence", FALSE, E_coherence)

--------------------------------------------------------------------------
\* The capsule and the ledger.

\* C39: a capsule that is held has a checkpoint no greater than the
\* length of the ledger and a shell version no greater than the kernel's.
\* The step that takes it sets the checkpoint to the length the ledger had,
\* and what that step adds, the molt entry of its own reconfiguration, comes
\* after; every other step leaves the entries below the checkpoint as they
\* were.  So the entries from the checkpoint on are those added since.
C39_CheckpointDividesLedger ==
    /\ [](capsule # NoCapsule =>
             /\ capsule.ledgerCheckpoint <= Len(ledger)
             /\ capsule.shellVersion <= shellVersion)
    /\ [][IF capsule' # capsule
          THEN /\ capsule'.ledgerCheckpoint = Len(ledger)
               /\ capsule'.shellVersion = shellVersion
               /\ IsPrefix(ledger, ledger')
               /\ \A i \in (Len(ledger) + 1)..Len(ledger') : ledger'[i].type = S_molt
          ELSE capsule # NoCapsule =>
                   SubSeq(ledger', 1, capsule.ledgerCheckpoint) =
                       SubSeq(ledger, 1, capsule.ledgerCheckpoint)]_vars

\* A heartbeat after 35 appends took the capsule and reconfigured, and an
\* append followed: the molt entry and the new entry lie past the checkpoint,
\* and the capsule has the shell version from before.
C39_Witness ==
    /\ capsule # NoCapsule
    /\ capsule.ledgerCheckpoint = 35
    /\ capsule.shellVersion = 1
    /\ shellVersion = 2
    /\ Len(ledger) = 37
    /\ ledger[36].type = S_molt
    /\ ledger[37].type # S_molt

--------------------------------------------------------------------------
\* Reconfiguration under governance.

\* The reconfigurations of the last window before time t, by their entries.
MoltsInWindow(t) ==
    {i \in DOMAIN ledger :
        /\ ledger[i].type = S_molt
        /\ t - ledger[i].timestamp < rateLimits["molt"].windowMs
        /\ ledger[i].timestamp <= t}

\* C40: on the governed kernel every reconfiguration passes the
\* limiter, a molt call or a heartbeat's molt alike: a step that raises the
\* shell version raises it by one and records its time in the window of
\* molt, and within any window of molt the shell version rises at most
\* maxCalls times.
C40_ReconfigurationRateLimited ==
    /\ [](secure =>
             /\ shellVersion = 1 + Cardinality({i \in DOMAIN ledger : ledger[i].type = S_molt})
             /\ \A t \in 0..now :
                    Cardinality(MoltsInWindow(t)) <= rateLimits["molt"].maxCalls)
    /\ [][(secure /\ shellVersion' # shellVersion) =>
             /\ shellVersion' = shellVersion + 1
             /\ Len(Survivors("molt", now)) < rateLimits["molt"].maxCalls
             /\ Admitted("molt")]_vars

\* A molt call reconfigured the kernel; a heartbeat on the drifted ledger
\* was refused its molt inside the window, and one made a window later
\* reconfigured.
C40_Witness ==
    /\ secure
    /\ shellVersion = 3
    /\ metrics.heartbeat_failures = 1
    /\ securityMetrics.rate_limit_violations = 1
    /\ ret = Ret("heartbeat", TRUE, E_none)
    /\ ledger[Len(ledger)].type = S_molt
    /\ ledger[Len(ledger)].timestamp >= WindowLong

==========================================================================
